---------------------------- MODULE Spec2Model ----------------------------
(***************************************************************************)
(* Ledger and invoice posting of the ERP backend (app/finance,             *)
(* app/invoices).  The database tables are the state; every service call   *)
(* runs inside one request transaction (core/database.py get_db) that is   *)
(* committed when the handler returns and rolled back when it raises.      *)
(*                                                                         *)
(* Amounts are counted in units of 0.00005, half of the last digit that a  *)
(* Numeric(18, 4) column keeps, so that the rounding done by the column is *)
(* visible.  Dates are day numbers.  Identifiers (UUID primary keys) are   *)
(* the positions of the rows in their tables; 0 stands for None.           *)
(***************************************************************************)
EXTENDS Integers, Sequences, FiniteSets, TLC

VARIABLES
    accounts,      \* accounts table: id -> row
    taxRates,      \* tax_rates table: id -> row
    customers,     \* customers table: id -> row
    vendors,       \* vendors table: id -> row
    fiscalYears,   \* fiscal_years table, in insertion order
    entries,       \* journal_entries table with the journal_lines of each entry
    invoices,      \* invoices table with the invoice_lines of each invoice
    today,         \* date.today()
    last,          \* the request served last and its result
    sessions,      \* the database sessions of the requests in progress
    users          \* users table: id -> row

masterVars == <<accounts, taxRates, customers, vendors, users>>
vars == <<accounts, taxRates, customers, vendors, users, fiscalYears, entries, invoices, today,
          last, sessions>>

---------------------------------------------------------------------------
(* Bounds of the model *)

MaxEntries == 2        \* journal entries stored at most
MaxLines == 3          \* lines of a journal entry request at most
MaxFiscalYears == 3    \* fiscal year rows at most
MaxInvoices == 1       \* invoices stored at most
MaxTenantInvoices == 2 \* invoices stored at most where each tenant has its own
MaxNotes == 1          \* credit and debit notes stored at most
MaxAgedInvoices == 2   \* invoices stored at most under the aging reports
MaxInvLines == 2       \* lines of an invoice request at most
MaxDay == 1            \* date.today() advances up to this day
YearLen == 2           \* days of a fiscal year
MaxOverlapEntries == 3 \* journal entries stored at most by overlapping requests

(* Program constants, in model units *)

Eps == 2               \* 0.0001, the tolerance of validate_lines
FutureDays == 7        \* posting_date may lie at most 7 days ahead
Scale == 2             \* one unit of the 4th decimal place of Numeric(18, 4)

Tenants == {"t1", "t2"}
None == 0
NoText == <<"none", 0>>

---------------------------------------------------------------------------
(* Arithmetic helpers *)

Abs(x) == IF x < 0 THEN -x ELSE x

RECURSIVE SumOf(_, _)
SumOf(seq, field) ==
    IF seq = <<>> THEN 0 ELSE Head(seq)[field] + SumOf(Tail(seq), field)

Max0(S) == IF S = {} THEN 0 ELSE CHOOSE m \in S : \A x \in S : x <= m

(* A Numeric(18, 4) column rounds a value to 4 decimal places, half away   *)
(* from zero (amounts here are never negative).                            *)
Numeric4(x) == ((2 * x + Scale) \div (2 * Scale)) * Scale

---------------------------------------------------------------------------
(* Master data after tenant provisioning (finance/seed.py), reduced to one  *)
(* account of each kind the postings need.                                 *)

AccountIds == {"AR", "AP", "Sales", "Tax", "Assets", "AR2"}
MissingAccount == "nil"

InitAccounts ==
    [a \in AccountIds |->
        CASE a = "AR"     -> [tenant_id |-> "t1", account_type |-> "asset",     is_group |-> FALSE, is_active |-> TRUE]
          [] a = "AP"     -> [tenant_id |-> "t1", account_type |-> "liability", is_group |-> FALSE, is_active |-> TRUE]
          [] a = "Sales"  -> [tenant_id |-> "t1", account_type |-> "revenue",   is_group |-> FALSE, is_active |-> TRUE]
          [] a = "Tax"    -> [tenant_id |-> "t1", account_type |-> "liability", is_group |-> FALSE, is_active |-> TRUE]
          [] a = "Assets" -> [tenant_id |-> "t1", account_type |-> "asset",     is_group |-> TRUE,  is_active |-> TRUE]
          [] a = "AR2"    -> [tenant_id |-> "t2", account_type |-> "asset",     is_group |-> FALSE, is_active |-> TRUE]]

NoRate == "none"

(* tax rates: rate is the fraction in percent (seed_gst_tax_rates seeds 0%  *)
(* rates; create_tax_rate accepts any rate)                                *)
InitTaxRates ==
    [r \in {"gst50", "gst0", "gst2"} |->
        IF r = "gst2"
        THEN [tenant_id |-> "t2", rate |-> 50, linked_account_id |-> "AR2", is_active |-> TRUE]
        ELSE [tenant_id |-> "t1", rate |-> IF r = "gst50" THEN 50 ELSE 0,
              linked_account_id |-> "Tax", is_active |-> TRUE]]

InitCustomers ==
    [c \in {"cust", "cust2", "cust3"} |->
        IF c = "cust3"
        THEN [tenant_id |-> "t2", receivable_account_id |-> "AR2", is_active |-> TRUE]
        ELSE [tenant_id |-> "t1", receivable_account_id |-> "AR", is_active |-> TRUE]]

InitVendors ==
    [v \in {"vend"} |-> [tenant_id |-> "t1", payable_account_id |-> "AP", is_active |-> TRUE]]

(* users: one active, one deactivated, one soft-deleted *)
InitUsers ==
    [u \in {"u1", "u2", "u3"} |->
        [tenant_id |-> "t1", is_active |-> u # "u2", is_deleted |-> u = "u3"]]

(* seed_initial_fiscal_year: the year that contains today, open *)
SeedFiscalYear(t, day) ==
    [tenant_id |-> t, start_date |-> (day \div YearLen) * YearLen,
     end_date |-> (day \div YearLen) * YearLen + YearLen - 1, status |-> "open"]

---------------------------------------------------------------------------
(* JournalEntryCreate.validate_lines (finance/schemas.py) *)

BadLine(line) ==
    (line.debit > 0 /\ line.credit > 0) \/ (line.debit = 0 /\ line.credit = 0)

TotalDiff(lines) == Abs(SumOf(lines, "debit") - SumOf(lines, "credit"))

(* abs(total_debit - total_credit) > 0.0001 on binary floats: when the     *)
(* exact difference is 0.0001 the float difference comes out just below or *)
(* just above the literal (0.0002 - 0.0001 is not above, 100.0001 - 100.0  *)
(* is), so the comparison can go either way; floatAbove is its outcome.    *)
FloatOutcomes(lines) == IF TotalDiff(lines) = Eps THEN BOOLEAN ELSE {FALSE}

ExceedsTolerance(lines, floatAbove) ==
    TotalDiff(lines) > Eps \/ (TotalDiff(lines) = Eps /\ floatAbove)

(* validate_lines without the comparison of the totals *)
ValidateLinesNoBalance(data, day, floatAbove) ==
    IF Len(data.lines) < 2 THEN "too_few_lines"
    ELSE IF \E i \in 1..Len(data.lines) : BadLine(data.lines[i]) THEN "debit_credit"
    ELSE IF data.posting_date > day + FutureDays THEN "future_date"
    ELSE "ok"

ValidateLines(data, day, floatAbove) ==
    IF Len(data.lines) < 2 THEN "too_few_lines"
    ELSE IF \E i \in 1..Len(data.lines) : BadLine(data.lines[i]) THEN "debit_credit"
    ELSE IF ExceedsTolerance(data.lines, floatAbove) THEN "unbalanced"
    ELSE IF data.posting_date > day + FutureDays THEN "future_date"
    ELSE "ok"

---------------------------------------------------------------------------
(* FiscalYearService.resolve_fiscal_year (finance/services.py) *)

(* the rows the query selects; session.scalar takes the first one returned *)
FiscalYearMatches(fys, t, d) ==
    {i \in 1..Len(fys) :
        fys[i].tenant_id = t /\ fys[i].start_date <= d /\ fys[i].end_date >= d}

FiscalYearRows(fys, t, d) ==
    IF FiscalYearMatches(fys, t, d) = {} THEN {None} ELSE FiscalYearMatches(fys, t, d)

ResolveFiscalYear(fys, row) ==
    IF row = None THEN "no_fiscal_year"
    ELSE IF fys[row].status # "open" THEN "fiscal_year_closed"
    ELSE "ok"

(* FiscalYearService.create_fiscal_year: only a second open year is       *)
(* refused; the dates are stored as given.                                 *)
GetOpenFiscalYear(fys, t) ==
    {i \in 1..Len(fys) : fys[i].tenant_id = t /\ fys[i].status = "open"}

CreateFiscalYearTx(fys, t, data) ==
    IF data.status = "open" /\ GetOpenFiscalYear(fys, t) # {}
    THEN [result |-> "open_year_exists", fiscalYears |-> fys]
    ELSE [result |-> "ok",
          fiscalYears |-> Append(fys,
              [tenant_id |-> t, start_date |-> data.start_date,
               end_date |-> data.end_date, status |-> data.status])]

(* close_fiscal_year without its check of the status *)
CloseFiscalYearAgain(fys, t, id) ==
    IF ~(id \in 1..Len(fys) /\ fys[id].tenant_id = t)
    THEN [result |-> "not_found", fiscalYears |-> fys]
    ELSE [result |-> "ok",
          fiscalYears |-> Append([fys EXCEPT ![id].status = "closed"],
              [tenant_id |-> t, start_date |-> fys[id].end_date + 1,
               end_date |-> fys[id].end_date + YearLen, status |-> "open"])]

(* FiscalYearService.close_fiscal_year: the year is closed and the next    *)
(* year is created open.                                                   *)
CloseFiscalYearTx(fys, t, id) ==
    IF ~(id \in 1..Len(fys) /\ fys[id].tenant_id = t)
    THEN [result |-> "not_found", fiscalYears |-> fys]
    ELSE IF fys[id].status = "closed"
    THEN [result |-> "already_closed", fiscalYears |-> fys]
    ELSE [result |-> "ok",
          fiscalYears |-> Append([fys EXCEPT ![id].status = "closed"],
              [tenant_id |-> t, start_date |-> fys[id].end_date + 1,
               end_date |-> fys[id].end_date + YearLen, status |-> "open"])]

---------------------------------------------------------------------------
---------------------------------------------------------------------------
(* ChartOfAccountsService (finance/services.py) *)

(* AccountUpdate.is_active: not set, true or false *)
Unset == "unset"

(* get_account: the account of the tenant with this id *)
GetAccount(accts, t, id) == id \in DOMAIN accts /\ accts[id].tenant_id = t

(* update_account: every field that the request sets is written *)
UpdateAccountTx(accts, t, id, data) ==
    IF ~GetAccount(accts, t, id)
    THEN [result |-> "not_found", accounts |-> accts]
    ELSE [result |-> "ok",
          accounts |-> [accts EXCEPT ![id].is_active =
                            IF data.is_active = Unset THEN @ ELSE data.is_active = "true"]]

(* count(JournalLine.id) where account_id is the account's *)
LinesCount(ents, id) ==
    Cardinality({<<i, k>> \in (1..Len(ents)) \X (1..MaxLines + 1) :
                    k <= Len(ents[i].lines) /\ ents[i].lines[k].account_id = id})

(* deactivate_account: refused when the account has journal lines *)
DeactivateAccountTx(accts, ents, t, id) ==
    IF ~GetAccount(accts, t, id)
    THEN [result |-> "not_found", accounts |-> accts]
    ELSE IF LinesCount(ents, id) > 0
    THEN [result |-> "has_lines", accounts |-> accts]
    ELSE [result |-> "ok", accounts |-> [accts EXCEPT ![id].is_active = FALSE]]

---------------------------------------------------------------------------
(* LedgerService.post_journal (finance/services.py) *)

(* MAX(journal_number) + 2: a number is left out *)
NextJournalNumberSkip(ents, t) ==
    Max0({ents[i].journal_number : i \in {j \in 1..Len(ents) : ents[j].tenant_id = t}}) + 2

(* MAX(journal_number) + 1 over the entries of every tenant *)
NextJournalNumberAll(ents, t) ==
    Max0({ents[i].journal_number : i \in 1..Len(ents)}) + 1

NextJournalNumber(ents, t) ==
    Max0({ents[i].journal_number : i \in {j \in 1..Len(ents) : ents[j].tenant_id = t}}) + 1

(* valid_accounts: the accounts of the lines that exist and are the tenant's *)
ValidAccount(accts, t, a) == a \in DOMAIN accts /\ accts[a].tenant_id = t

(* the account check without the test of is_group *)
CheckAccountsNoGroup(accts, t, lines) ==
    IF \E i \in 1..Len(lines) : ~ValidAccount(accts, t, lines[i].account_id)
    THEN "account_not_found" ELSE "ok"

CheckAccounts(accts, t, lines) ==
    IF \E i \in 1..Len(lines) :
          /\ \A j \in 1..(i - 1) :
                /\ ValidAccount(accts, t, lines[j].account_id)
                /\ ~accts[lines[j].account_id].is_group
          /\ ~ValidAccount(accts, t, lines[i].account_id)
    THEN "account_not_found"
    ELSE IF \E i \in 1..Len(lines) :
          ValidAccount(accts, t, lines[i].account_id) /\ accts[lines[i].account_id].is_group
    THEN "group_account" ELSE "ok"

(* the journal_lines rows of an entry as the columns keep them *)
StoredLines(lines) ==
    [i \in 1..Len(lines) |->
        [account_id |-> lines[i].account_id,
         debit |-> Numeric4(lines[i].debit),
         credit |-> Numeric4(lines[i].credit)]]

(* The result of post_journal up to its last flush: the error it raises or *)
(* the table with the new entry.  row is the fiscal year row the query     *)
(* returned.                                                               *)
PostJournalTx(ents, fys, accts, t, data, row) ==
    IF ResolveFiscalYear(fys, row) # "ok"
    THEN [result |-> ResolveFiscalYear(fys, row), entries |-> ents, id |-> None]
    ELSE IF CheckAccounts(accts, t, data.lines) # "ok"
    THEN [result |-> CheckAccounts(accts, t, data.lines), entries |-> ents, id |-> None]
    ELSE [result |-> "ok",
          entries |-> Append(ents,
              [tenant_id |-> t,
               journal_number |-> NextJournalNumber(ents, t),
               description |-> data.description,
               posting_date |-> data.posting_date,
               status |-> "posted",
               reference |-> data.reference,
               reversal_of |-> None,
               reversed_by |-> None,
               fiscal_year_id |-> row,
               lines |-> StoredLines(data.lines)]),
          id |-> Len(ents) + 1]


(* LedgerService.get_journal_entry: the entry, if it is the tenant's *)
GetJournalEntry(ents, t, id) ==
    IF id \in 1..Len(ents) /\ ents[id].tenant_id = t THEN id ELSE None

(* the lines of the reversal entry: as the original's, not swapped *)
CopiedLines(lines) ==
    [i \in 1..Len(lines) |->
        [account_id |-> lines[i].account_id,
         debit |-> Numeric4(lines[i].debit),
         credit |-> Numeric4(lines[i].credit)]]

(* the lines of the reversal entry: debit and credit swapped *)
SwappedLines(lines) ==
    [i \in 1..Len(lines) |->
        [account_id |-> lines[i].account_id,
         debit |-> Numeric4(lines[i].credit),
         credit |-> Numeric4(lines[i].debit)]]

(* the two guards of reverse_journal on the original entry *)
ReversibleCheck(ents, id) ==
    IF ents[id].status # "posted" THEN "not_posted"
    ELSE IF ents[id].reversed_by # None THEN "already_reversed"
    ELSE "ok"

(* the original left without its link *)
LinkNone(ents, id, rid) == ents

(* the original linked and marked as reversed *)
LinkAndMark(ents, id, rid) ==
    [ents EXCEPT ![id].reversed_by = rid, ![id].status = "reversed"]

(* original.reversed_by = reversal.id *)
LinkReversedBy(ents, id, rid) == [ents EXCEPT ![id].reversed_by = rid]

(* LedgerService.reverse_journal up to its last flush *)
ReverseJournalTx(ents, fys, t, id, day, description, row) ==
    IF GetJournalEntry(ents, t, id) = None
    THEN [result |-> "not_found", entries |-> ents, id |-> None]
    ELSE IF ReversibleCheck(ents, id) # "ok"
    THEN [result |-> ReversibleCheck(ents, id), entries |-> ents, id |-> None]
    ELSE IF ResolveFiscalYear(fys, row) # "ok"
    THEN [result |-> ResolveFiscalYear(fys, row), entries |-> ents, id |-> None]
    ELSE [result |-> "ok",
          entries |-> LinkReversedBy(
              Append(ents,
                  [tenant_id |-> t,
                   journal_number |-> NextJournalNumber(ents, t),
                   description |-> description,
                   posting_date |-> day,
                   status |-> "posted",
                   reference |-> <<"Reversal of #", ents[id].journal_number>>,
                   reversal_of |-> id,
                   reversed_by |-> None,
                   fiscal_year_id |-> row,
                   lines |-> SwappedLines(ents[id].lines)]),
              id, Len(ents) + 1),
          id |-> Len(ents) + 1]

---------------------------------------------------------------------------
(* EventBus.publish_event (core/events.py): the event is handed to Redis;  *)
(* an exception of the client is raised again to the caller.               *)
PublishOutcomes == {"sent", "raised"}

(* a transaction committed before the event is published *)
CommitBeforePublish(result, pub) == result = "ok"

(* get_db (core/database.py): commit when the handler returned, rollback   *)
(* when it raised.  A handler that raised leaves every table as it was.    *)
Commit(result, pub) == result = "ok" /\ pub = "sent"

Outcome(result, pub) ==
    IF result # "ok" THEN result ELSE IF pub = "sent" THEN "ok" ELSE "publish_failed"

---------------------------------------------------------------------------
(* InvoiceService (invoices/services.py) *)

(* get_invoice: the invoice, if it is the tenant's *)
GetInvoice(invs, t, id) ==
    IF id \in 1..Len(invs) /\ invs[id].tenant_id = t THEN id ELSE None

(* _validate_party: the customer or vendor row, active and the tenant's *)
ValidParty(custs, vends, t, party_id, party_type) ==
    IF party_type = "customer"
    THEN party_id \in DOMAIN custs /\ custs[party_id].tenant_id = t /\ custs[party_id].is_active
    ELSE party_id \in DOMAIN vends /\ vends[party_id].tenant_id = t /\ vends[party_id].is_active

(* _validate_accounts_and_tax for one line *)
ValidLine(accts, rates, t, line) ==
    /\ ValidAccount(accts, t, line.account_id)
    /\ accts[line.account_id].is_active
    /\ ~accts[line.account_id].is_group
    /\ line.tax_rate_id # NoRate =>
          /\ line.tax_rate_id \in DOMAIN rates
          /\ rates[line.tax_rate_id].tenant_id = t
          /\ rates[line.tax_rate_id].is_active

(* qty * price * (1 - disc / 100) *)
LineTotal(l) == (l.quantity * l.unit_price * (100 - l.discount_percent)) \div 100

NextInvoiceNumber(invs, t) ==
    IF {i \in 1..Len(invs) : invs[i].tenant_id = t} = {} THEN 1001
    ELSE Max0({invs[i].invoice_number : i \in {j \in 1..Len(invs) : invs[j].tenant_id = t}}) + 1

(* the invoice_lines rows made from the lines of a request *)
NewInvoiceLines(lines) ==
    [i \in 1..Len(lines) |->
        [line_number |-> i,
         quantity |-> lines[i].quantity,
         unit_price |-> lines[i].unit_price,
         discount_percent |-> lines[i].discount_percent,
         line_total |-> Numeric4(LineTotal(lines[i])),
         account_id |-> lines[i].account_id,
         tax_rate_id |-> lines[i].tax_rate_id,
         tax_amount |-> 0]]

RECURSIVE SumLineTotals(_)
SumLineTotals(lines) ==
    IF lines = <<>> THEN 0 ELSE LineTotal(Head(lines)) + SumLineTotals(Tail(lines))

(* create_invoice *)
CreateInvoiceTx(invs, accts, rates, custs, vends, t, data) ==
    IF ~ValidParty(custs, vends, t, data.party_id, data.party_type)
    THEN [result |-> "party_not_found", invoices |-> invs, id |-> None]
    ELSE IF \E i \in 1..Len(data.lines) : ~ValidLine(accts, rates, t, data.lines[i])
    THEN [result |-> "invalid_line", invoices |-> invs, id |-> None]
    ELSE [result |-> "ok",
          invoices |-> Append(invs,
              [tenant_id |-> t,
               invoice_number |-> NextInvoiceNumber(invs, t),
               invoice_type |-> data.invoice_type,
               party_id |-> data.party_id,
               party_type |-> data.party_type,
               invoice_date |-> data.invoice_date,
               due_date |-> data.due_date,
               status |-> "draft",
               subtotal |-> Numeric4(SumLineTotals(data.lines)),
               total_tax |-> 0,
               total |-> Numeric4(SumLineTotals(data.lines)),
               journal_entry_id |-> None,
               reversal_of |-> None,
               lines |-> NewInvoiceLines(data.lines)]),
          id |-> Len(invs) + 1]

(* update_invoice: only a draft is changed *)
UpdateGuard(inv) == inv.status = "draft"

(* update_invoice; a field that the request leaves unset is NoChange *)
NoChange == -1

UpdateInvoiceTx(invs, accts, rates, t, id, data) ==
    IF GetInvoice(invs, t, id) = None
    THEN [result |-> "not_found", invoices |-> invs]
    ELSE IF ~UpdateGuard(invs[id])
    THEN [result |-> "immutable", invoices |-> invs]
    ELSE IF data.lines # <<>> /\ \E i \in 1..Len(data.lines) : ~ValidLine(accts, rates, t, data.lines[i])
    THEN [result |-> "invalid_line", invoices |-> invs]
    ELSE [result |-> "ok",
          invoices |-> [invs EXCEPT ![id] =
              [@ EXCEPT
                 !.invoice_date = IF data.invoice_date = NoChange THEN @ ELSE data.invoice_date,
                 !.due_date = IF data.due_date = NoChange THEN @ ELSE data.due_date,
                 !.lines = IF data.lines = <<>> THEN @ ELSE NewInvoiceLines(data.lines),
                 !.subtotal = IF data.lines = <<>> THEN @ ELSE Numeric4(SumLineTotals(data.lines)),
                 !.total = IF data.lines = <<>> THEN @ ELSE Numeric4(SumLineTotals(data.lines))]]]

(* line_total * tax_rate.rate *)
TaxAmount(line, rates) ==
    IF line.tax_rate_id = NoRate THEN 0
    ELSE (line.line_total * rates[line.tax_rate_id].rate) \div 100

(* the direction of the posting, a credit note posted like the sale *)
CreditSideWithCreditNotes(inv) ==
    \/ inv.invoice_type \in {"sales", "debit_note", "credit_note"} /\ inv.party_type = "customer"
    \/ inv.invoice_type = "debit_note" /\ inv.party_type = "vendor"

(* the direction of the posting *)
CreditSide(inv) ==
    \/ inv.invoice_type \in {"sales", "debit_note"} /\ inv.party_type = "customer"
    \/ inv.invoice_type = "debit_note" /\ inv.party_type = "vendor"

DebitSide(inv) ==
    \/ inv.invoice_type \in {"purchase", "credit_note"} /\ inv.party_type = "vendor"
    \/ inv.invoice_type = "credit_note" /\ inv.party_type = "customer"

JLine(a, d, c) == [account_id |-> a, debit |-> d, credit |-> c]

(* the sub-account lines: one for each invoice line, one more when taxed *)
RECURSIVE SubAccountLines(_, _, _)
SubAccountLines(lines, rates, credit) ==
    IF lines = <<>> THEN <<>>
    ELSE LET l == Head(lines)
             tax == TaxAmount(l, rates)
             own == IF credit THEN JLine(l.account_id, 0, l.line_total)
                              ELSE JLine(l.account_id, l.line_total, 0)
             taxed == IF l.tax_rate_id = NoRate THEN <<>>
                      ELSE IF credit
                           THEN <<JLine(rates[l.tax_rate_id].linked_account_id, 0, tax)>>
                           ELSE <<JLine(rates[l.tax_rate_id].linked_account_id, tax, 0)>>
         IN <<own>> \o taxed \o SubAccountLines(Tail(lines), rates, credit)

RECURSIVE SumTax(_, _)
SumTax(lines, rates) ==
    IF lines = <<>> THEN 0 ELSE TaxAmount(Head(lines), rates) + SumTax(Tail(lines), rates)

(* the total posted to the account of the first invoice line *)
PartyAccountOfLine(custs, vends, inv) == inv.lines[1].account_id

PartyAccount(custs, vends, inv) ==
    IF inv.party_type = "customer" THEN custs[inv.party_id].receivable_account_id
    ELSE vends[inv.party_id].payable_account_id

(* the party control account line for the total *)
ControlLine(custs, vends, inv, total) ==
    IF CreditSide(inv) THEN <<JLine(PartyAccount(custs, vends, inv), total, 0)>>
    ELSE IF DebitSide(inv) THEN <<JLine(PartyAccount(custs, vends, inv), 0, total)>>
    ELSE <<>>

(* journal_lines_create of submit_invoice *)
InvoiceJournalLines(custs, vends, rates, inv) ==
    (IF CreditSide(inv) THEN SubAccountLines(inv.lines, rates, TRUE)
     ELSE IF DebitSide(inv) THEN SubAccountLines(inv.lines, rates, FALSE)
     ELSE <<>>)
    \o ControlLine(custs, vends, inv,
                   SumOf(inv.lines, "line_total") + SumTax(inv.lines, rates))

InvoiceJournalData(custs, vends, rates, inv) ==
    [tenant_id |-> inv.tenant_id,
     posting_date |-> inv.invoice_date,
     lines |-> InvoiceJournalLines(custs, vends, rates, inv),
     description |-> <<inv.invoice_type, inv.invoice_number>>,
     reference |-> <<"INV-", inv.invoice_number>>]

(* the invoice row and its lines as submit_invoice sets them *)
SubmittedInvoice(inv, rates, jeid) ==
    [inv EXCEPT
        !.subtotal = Numeric4(SumOf(inv.lines, "line_total")),
        !.total_tax = Numeric4(SumTax(inv.lines, rates)),
        !.total = Numeric4(SumOf(inv.lines, "line_total") + SumTax(inv.lines, rates)),
        !.journal_entry_id = jeid,
        !.status = "submitted",
        !.lines = [i \in 1..Len(inv.lines) |->
            IF inv.lines[i].tax_rate_id = NoRate THEN inv.lines[i]
            ELSE [inv.lines[i] EXCEPT !.tax_amount = Numeric4(TaxAmount(inv.lines[i], rates))]]]

(* submit_invoice without the test of the status *)
SubmitGuardOff(inv) == TRUE

(* submit_invoice: only a draft is submitted *)
SubmitGuard(inv) == inv.status = "draft"

(* submit_invoice up to its last flush *)
SubmitInvoiceTx(invs, ents, fys, accts, rates, custs, vends, t, id, day, row) ==
    LET fail(r) == [result |-> r, invoices |-> invs, entries |-> ents, id |-> None]
    IN IF GetInvoice(invs, t, id) = None THEN fail("not_found")
       ELSE IF ~SubmitGuard(invs[id]) THEN fail("not_draft")
       ELSE IF invs[id].lines = <<>> THEN fail("no_lines")
       ELSE IF ~ValidParty(custs, vends, t, invs[id].party_id, invs[id].party_type)
       THEN fail("party_not_found")
       ELSE IF \E i \in 1..Len(invs[id].lines) : ~ValidLine(accts, rates, t, invs[id].lines[i])
       THEN fail("invalid_line")
       ELSE LET data == InvoiceJournalData(custs, vends, rates, invs[id])
                v == ValidateLines(data, day, FALSE)
                tx == PostJournalTx(ents, fys, accts, t, data, row)
            IN IF v # "ok" THEN fail(v)
               ELSE IF tx.result # "ok" THEN fail(tx.result)
               ELSE [result |-> "ok",
                     invoices |-> [invs EXCEPT ![id] = SubmittedInvoice(@, rates, tx.id)],
                     entries |-> tx.entries,
                     id |-> tx.id]

(* cancel_invoice: only a submitted invoice is cancelled *)
CancelGuard(inv) == inv.status = "submitted"

(* cancel_invoice up to its last flush; day is date.today() *)
CancelInvoiceTx(invs, ents, fys, t, id, day, row) ==
    LET fail(r) == [result |-> r, invoices |-> invs, entries |-> ents, id |-> None]
    IN IF GetInvoice(invs, t, id) = None THEN fail("not_found")
       ELSE IF ~CancelGuard(invs[id]) THEN fail("not_submitted")
       ELSE LET tx == ReverseJournalTx(ents, fys, t, invs[id].journal_entry_id, day,
                          <<"Cancellation of invoice", invs[id].invoice_number>>, row)
            IN IF tx.result # "ok" THEN fail(tx.result)
               ELSE [result |-> "ok",
                     invoices |-> [invs EXCEPT ![id].status = "cancelled"],
                     entries |-> tx.entries,
                     id |-> tx.id]

---------------------------------------------------------------------------
(* TrialBalanceService.get (finance/services.py)                           *)

(* the request without as_of *)
NoAsOf == -1

(* the WHERE clause on the journal entries *)
TrialBalanceEntries(ents, t, fy, asOf) ==
    {i \in 1..Len(ents) :
        /\ ents[i].tenant_id = t
        /\ ents[i].fiscal_year_id = fy
        /\ ents[i].status = "posted"
        /\ asOf # NoAsOf => ents[i].posting_date <= asOf}

(* the journal_lines joined to the selected entries, entry after entry *)
RECURSIVE JoinedLines(_, _, _)
JoinedLines(ents, sel, i) ==
    IF i > Len(ents) THEN <<>>
    ELSE (IF i \in sel THEN ents[i].lines ELSE <<>>) \o JoinedLines(ents, sel, i + 1)

(* the balance as total_debit - total_credit for every account type *)
BalanceDebitSide(type, td, tc) == td - tc

(* bal = td - tc for asset and expense, tc - td otherwise *)
Balance(type, td, tc) == IF type \in {"asset", "expense"} THEN td - tc ELSE tc - td

(* GROUP BY account: one row for each account the joined lines name *)
TrialBalanceRows(accts, joined) ==
    LET named == {joined[k].account_id : k \in 1..Len(joined)} \cap DOMAIN accts
        of(a) == SelectSeq(joined, LAMBDA l : l.account_id = a)
    IN [a \in named |->
          [account_type |-> accts[a].account_type,
           total_debit |-> SumOf(of(a), "debit"),
           total_credit |-> SumOf(of(a), "credit"),
           balance |-> Balance(accts[a].account_type,
                               SumOf(of(a), "debit"), SumOf(of(a), "credit"))]]

TrialBalanceGet(ents, fys, accts, t, fy, asOf) ==
    IF ~(fy \in 1..Len(fys) /\ fys[fy].tenant_id = t)
    THEN [result |-> "not_found"]
    ELSE LET joined == JoinedLines(ents, TrialBalanceEntries(ents, t, fy, asOf), 1)
         IN [result |-> "ok",
             lines |-> TrialBalanceRows(accts, joined),
             total_debit |-> SumOf(joined, "debit"),
             total_credit |-> SumOf(joined, "credit")]

---------------------------------------------------------------------------
(* InvoiceService.create_credit_note and create_debit_note                 *)

(* the lines of the note without the tax rate of the original's lines *)
ClonedLinesUntaxed(lines) ==
    [i \in 1..Len(lines) |->
        [line_number |-> lines[i].line_number,
         quantity |-> lines[i].quantity,
         unit_price |-> lines[i].unit_price,
         discount_percent |-> lines[i].discount_percent,
         line_total |-> lines[i].line_total,
         account_id |-> lines[i].account_id,
         tax_rate_id |-> NoRate,
         tax_amount |-> 0]]

(* one InvoiceLine for each line of the original; tax_amount is left at    *)
(* the default of its column                                               *)
ClonedLines(lines) ==
    [i \in 1..Len(lines) |->
        [line_number |-> lines[i].line_number,
         quantity |-> lines[i].quantity,
         unit_price |-> lines[i].unit_price,
         discount_percent |-> lines[i].discount_percent,
         line_total |-> lines[i].line_total,
         account_id |-> lines[i].account_id,
         tax_rate_id |-> lines[i].tax_rate_id,
         tax_amount |-> 0]]

(* the checks on the original without the test of its type *)
NoteGuardAnyType(inv, originalType) ==
    IF inv.status = "cancelled" THEN "cancelled_original"
    ELSE IF inv.status # "submitted" THEN "not_submitted"
    ELSE "ok"

(* the three checks on the original invoice *)
NoteGuard(inv, originalType) ==
    IF inv.status = "cancelled" THEN "cancelled_original"
    ELSE IF inv.status # "submitted" THEN "not_submitted"
    ELSE IF inv.invoice_type # originalType THEN "wrong_type"
    ELSE "ok"

(* the draft note built from the original; day is date.today() *)
NoteInvoice(invs, t, id, day, noteType) ==
    [tenant_id |-> t,
     invoice_number |-> NextInvoiceNumber(invs, t),
     invoice_type |-> noteType,
     party_id |-> invs[id].party_id,
     party_type |-> invs[id].party_type,
     invoice_date |-> day,
     due_date |-> day,
     status |-> "draft",
     subtotal |-> invs[id].subtotal,
     total_tax |-> 0,
     total |-> invs[id].subtotal,
     journal_entry_id |-> None,
     reversal_of |-> id,
     lines |-> ClonedLines(invs[id].lines)]

CreateNoteTx(invs, t, id, day, noteType, originalType) ==
    IF GetInvoice(invs, t, id) = None
    THEN [result |-> "not_found", invoices |-> invs, id |-> None]
    ELSE IF NoteGuard(invs[id], originalType) # "ok"
    THEN [result |-> NoteGuard(invs[id], originalType), invoices |-> invs, id |-> None]
    ELSE [result |-> "ok",
          invoices |-> Append(invs, NoteInvoice(invs, t, id, day, noteType)),
          id |-> Len(invs) + 1]

CreateCreditNoteTx(invs, t, id, day) == CreateNoteTx(invs, t, id, day, "credit_note", "sales")

CreateDebitNoteTx(invs, t, id, day) == CreateNoteTx(invs, t, id, day, "debit_note", "purchase")

---------------------------------------------------------------------------
(* AgingService.ar_aging and ap_aging (invoices/services.py)               *)

AgingBands == {"current", "days_1_30", "days_31_60", "days_61_90", "days_91_plus"}

(* the if/elif chain with the first test as days_overdue < 0 *)
BandBelowZero(d) ==
    IF d < 0 THEN "current"
    ELSE IF 1 <= d /\ d <= 30 THEN "days_1_30"
    ELSE IF 31 <= d /\ d <= 60 THEN "days_31_60"
    ELSE IF 61 <= d /\ d <= 90 THEN "days_61_90"
    ELSE "days_91_plus"

(* the bucket of days_overdue *)
Band(d) ==
    IF d <= 0 THEN "current"
    ELSE IF 1 <= d /\ d <= 30 THEN "days_1_30"
    ELSE IF 31 <= d /\ d <= 60 THEN "days_31_60"
    ELSE IF 61 <= d /\ d <= 90 THEN "days_61_90"
    ELSE "days_91_plus"

(* the invoices the statement selects: joined to the party table, of the   *)
(* tenant and the type, submitted, dated up to as_of                       *)
AgingSelected(invs, parties, t, type, asOf) ==
    {i \in 1..Len(invs) :
        /\ invs[i].party_id \in DOMAIN parties
        /\ invs[i].tenant_id = t
        /\ invs[i].invoice_type = type
        /\ invs[i].status = "submitted"
        /\ invs[i].invoice_date <= asOf}

ZeroBuckets == [b \in AgingBands \cup {"total"} |-> 0]

(* the loop over the rows: each total is added to its party's total and to *)
(* the bucket of its days overdue                                          *)
RECURSIVE AgingByParty(_, _, _, _)
AgingByParty(invs, sel, asOf, i) ==
    IF i = 0 THEN << >>
    ELSE LET before == AgingByParty(invs, sel, asOf, i - 1)
         IN IF i \notin sel THEN before
            ELSE LET p == invs[i].party_id
                     b == Band(asOf - invs[i].due_date)
                     old == IF p \in DOMAIN before THEN before[p] ELSE ZeroBuckets
                     new == [old EXCEPT !["total"] = @ + invs[i].total,
                                        ![b] = @ + invs[i].total]
                 IN [q \in DOMAIN before \cup {p} |-> IF q = p THEN new ELSE before[q]]

RECURSIVE SumBuckets(_, _)
SumBuckets(rows, ps) ==
    IF ps = {} THEN ZeroBuckets
    ELSE LET p == CHOOSE q \in ps : TRUE
             rest == SumBuckets(rows, ps \ {p})
         IN [k \in DOMAIN ZeroBuckets |-> rest[k] + rows[p][k]]

AgingReport(invs, parties, t, type, asOf) ==
    LET rows == AgingByParty(invs, AgingSelected(invs, parties, t, type, asOf), asOf, Len(invs))
    IN [as_of |-> asOf, rows |-> rows, totals |-> SumBuckets(rows, DOMAIN rows)]

ArAging(invs, custs, t, asOf) == AgingReport(invs, custs, t, "sales", asOf)

ApAging(invs, vends, t, asOf) == AgingReport(invs, vends, t, "purchase", asOf)

---------------------------------------------------------------------------
(* Requests *)

(* the requests served at the same time, each in its own session (get_db) *)
Workers == {"w1", "w2"}
NoSession == [op |-> "none"]
NoSessions == [w \in Workers |-> NoSession]

NoLast == [op |-> "none", req |-> [tenant_id |-> "t1"], result |-> "none", id |-> None]
Idle == last.op = "none"

LineKinds ==
    << [account_id |-> "Sales",  debit |-> 2, credit |-> 0],
       [account_id |-> "AR",     debit |-> 0, credit |-> 2],
       [account_id |-> "AR",     debit |-> 0, credit |-> 1],
       [account_id |-> "Sales",  debit |-> 0, credit |-> 0],
       [account_id |-> "Sales",  debit |-> 2, credit |-> 2],
       [account_id |-> "Assets", debit |-> 0, credit |-> 2],
       [account_id |-> "AR2",    debit |-> 0, credit |-> 2],
       [account_id |-> "AR2",    debit |-> 2, credit |-> 0],
       [account_id |-> MissingAccount, debit |-> 0, credit |-> 2] >>

(* line lists of a request, each combination of line kinds once *)
KindSeqs(n) ==
    {s \in [1..n -> 1..Len(LineKinds)] : \A i \in 1..(n - 1) : s[i] <= s[i + 1]}

JournalLineSeqs ==
    UNION {{[i \in 1..n |-> LineKinds[s[i]]] : s \in KindSeqs(n)} : n \in 0..MaxLines}

PostingDates == {0, YearLen, FutureDays + 1}

PlainLines(t) ==
    IF t = "t1" THEN <<LineKinds[1], LineKinds[2]>> ELSE <<LineKinds[8], LineKinds[7]>>

JournalRequest(t, d, ls) ==
    [tenant_id |-> t, posting_date |-> d, lines |-> ls,
     description |-> <<"jv", 0>>, reference |-> NoText]

(* balanced two-line bodies, and the same with one account that the tenant *)
(* may not post to                                                         *)
PlainRequests ==
    {JournalRequest(t, d, PlainLines(t)) : t \in Tenants, d \in PostingDates}
    \cup {JournalRequest("t1", 0, <<LineKinds[1], LineKinds[k]>>) : k \in {6, 7, 9}}
    \cup {JournalRequest("t2", 0, <<LineKinds[8], LineKinds[2]>>)}

PostRequests ==
    {JournalRequest("t1", 0, ls) : ls \in JournalLineSeqs} \cup PlainRequests

ReverseRequests ==
    [tenant_id : Tenants, entry_id : 1..(Len(entries) + 1),
     reversal_date : {0, YearLen}, description : {<<"rev", 0>>}]

FiscalYearRequests ==
    {[tenant_id |-> t, start_date |-> d, end_date |-> d + YearLen - 1, status |-> st] :
        t \in Tenants, d \in {0, YearLen}, st \in {"open", "closed"}}

(* FiscalYearCreate.status is free text of at most 20 characters *)
FiscalYearStatuses == {"open", "closed", "draft"}

AnyFiscalYearRequests ==
    {[tenant_id |-> t, start_date |-> d, end_date |-> d + YearLen - 1, status |-> st] :
        t \in Tenants, d \in {0, YearLen}, st \in FiscalYearStatuses}

InvLineKinds ==
    << [quantity |-> 1, unit_price |-> 2, discount_percent |-> 0,   account_id |-> "Sales",  tax_rate_id |-> NoRate],
       [quantity |-> 1, unit_price |-> 2, discount_percent |-> 0,   account_id |-> "Sales",  tax_rate_id |-> "gst50"],
       [quantity |-> 1, unit_price |-> 2, discount_percent |-> 100, account_id |-> "Sales",  tax_rate_id |-> NoRate],
       [quantity |-> 1, unit_price |-> 2, discount_percent |-> 0,   account_id |-> "Sales",  tax_rate_id |-> "gst0"],
       [quantity |-> 1, unit_price |-> 2, discount_percent |-> 0,   account_id |-> "Assets", tax_rate_id |-> NoRate] >>

InvKindSeqs(n) ==
    {s \in [1..n -> 1..Len(InvLineKinds)] : \A i \in 1..(n - 1) : s[i] <= s[i + 1]}

InvLineSeqs ==
    UNION {{[i \in 1..n |-> InvLineKinds[s[i]]] : s \in InvKindSeqs(n)} : n \in 1..MaxInvLines}

InvoiceTypes == {"sales", "purchase", "credit_note", "debit_note"}
PartyTypes == {"customer", "vendor"}
PartyOf(pt) == IF pt = "customer" THEN "cust" ELSE "vend"

InvoiceRequest(t, it, pt, pid, d, ls) ==
    [tenant_id |-> t, invoice_type |-> it, party_type |-> pt, party_id |-> pid,
     invoice_date |-> d, due_date |-> d, lines |-> ls]

CreateRequests ==
    {InvoiceRequest("t1", it, pt, PartyOf(pt), 0, <<InvLineKinds[2]>>) :
        it \in InvoiceTypes, pt \in PartyTypes}
    \cup {InvoiceRequest("t1", "sales", "customer", "cust", 0, ls) : ls \in InvLineSeqs}
    \cup {InvoiceRequest("t1", "purchase", "vendor", "vend", 0, ls) :
            ls \in {<<InvLineKinds[1]>>, <<InvLineKinds[1], InvLineKinds[2]>>}}
    \cup {InvoiceRequest(t, "sales", "customer", pid, 0, <<InvLineKinds[2]>>) :
            t \in Tenants, pid \in {"cust", "vend"}}

(* invoices of two customers and a vendor, due on the invoice date or later *)
DatedCreateRequests ==
    {[InvoiceRequest("t1", "sales", "customer", pid, d, ls) EXCEPT !.due_date = @ + term] :
        pid \in {"cust", "cust2"}, d \in {0, 1}, term \in {0, 30},
        ls \in {<<InvLineKinds[1]>>, <<InvLineKinds[2]>>}}
    \cup {[InvoiceRequest("t1", "purchase", "vendor", "vend", d, ls) EXCEPT !.due_date = @ + term] :
        d \in {0, 1}, term \in {0, 30}, ls \in {<<InvLineKinds[1]>>, <<InvLineKinds[2]>>}}

(* invoice lines on an account and with a tax rate of tenant t2 *)
ForeignLineKinds ==
    << [quantity |-> 1, unit_price |-> 2, discount_percent |-> 0, account_id |-> "AR2",   tax_rate_id |-> NoRate],
       [quantity |-> 1, unit_price |-> 2, discount_percent |-> 0, account_id |-> "Sales", tax_rate_id |-> "gst2"] >>

(* an invoice of tenant t1, the same with a line that names a record of    *)
(* tenant t2, and invoices of tenant t2 with its own customer and account  *)
(* or with those of tenant t1                                              *)
TenantCreateRequests ==
    {InvoiceRequest("t1", "sales", "customer", "cust", 0, ls) :
        ls \in {<<InvLineKinds[2]>>, <<ForeignLineKinds[1]>>, <<ForeignLineKinds[2]>>}}
    \cup {InvoiceRequest("t2", "sales", "customer", c, 0, ls) :
            c \in {"cust", "cust3"}, ls \in {<<InvLineKinds[2]>>, <<ForeignLineKinds[1]>>}}

TenantUpdateRequests ==
    [tenant_id : Tenants, invoice_id : 1..(Len(invoices) + 1),
     invoice_date : {NoChange}, due_date : {NoChange},
     lines : {<<InvLineKinds[1]>>, <<ForeignLineKinds[1]>>, <<ForeignLineKinds[2]>>}]

AsOfDates == {0, 1, 30, 31, 60, 61, 90, 91}

AgingRequests == [tenant_id : Tenants, as_of : AsOfDates]

UpdateRequests ==
    [tenant_id : Tenants, invoice_id : 1..(Len(invoices) + 1),
     invoice_date : {NoChange, YearLen}, due_date : {NoChange},
     lines : {<<>>, <<InvLineKinds[1]>>, <<InvLineKinds[5]>>}]

InvoiceIdRequests == [tenant_id : Tenants, invoice_id : 1..(Len(invoices) + 1)]

---------------------------------------------------------------------------
(* Request handlers.  Each action is one request from its validation to    *)
(* the commit or rollback of its transaction; the tables hold at most      *)
(* MaxEntries, MaxFiscalYears and MaxInvoices rows.                        *)

(* POST /journal-entries: the body is validated, then post_journal runs and *)
(* publishes finance.journal_posted.                                       *)
PostJournalStep(r) ==
    /\ \E floatAbove \in FloatOutcomes(r.lines) :
       \E row \in FiscalYearRows(fiscalYears, r.tenant_id, r.posting_date) :
       \E pub \in PublishOutcomes :
          LET v == ValidateLines(r, today, floatAbove)
              tx == PostJournalTx(entries, fiscalYears, accounts, r.tenant_id, r, row)
          IN IF v # "ok"
             THEN /\ entries' = entries
                  /\ last' = [op |-> "post_journal", req |-> r, result |-> v, id |-> None]
             ELSE /\ entries' = IF Commit(tx.result, pub) THEN tx.entries ELSE entries
                  /\ last' = [op |-> "post_journal", req |-> r,
                              result |-> Outcome(tx.result, pub),
                              id |-> IF Outcome(tx.result, pub) = "ok" THEN tx.id ELSE None]
    /\ Len(entries') <= MaxEntries
    /\ UNCHANGED <<masterVars, sessions, fiscalYears, invoices, today>>

(* any body of up to MaxLines lines *)
PostJournal == Idle /\ \E r \in PostRequests : PostJournalStep(r)

(* the bodies a bookkeeper enters beside the invoices *)
PostPlainJournal == Idle /\ \E r \in PlainRequests : PostJournalStep(r)

(* POST /journal-entries/{entry_id}/reverse *)
ReverseJournal ==
    /\ Idle
    /\ \E r \in ReverseRequests :
       \E row \in FiscalYearRows(fiscalYears, r.tenant_id, r.reversal_date) :
       \E pub \in PublishOutcomes :
          LET tx == ReverseJournalTx(entries, fiscalYears, r.tenant_id, r.entry_id,
                                     r.reversal_date, r.description, row)
          IN /\ entries' = IF Commit(tx.result, pub) THEN tx.entries ELSE entries
             /\ last' = [op |-> "reverse_journal", req |-> r,
                         result |-> Outcome(tx.result, pub),
                         id |-> IF Outcome(tx.result, pub) = "ok" THEN tx.id ELSE None]
    /\ Len(entries') <= MaxEntries
    /\ UNCHANGED <<masterVars, sessions, fiscalYears, invoices, today>>

(* POST /fiscal-years *)
CreateFiscalYearStep(r) ==
    /\ LET tx == CreateFiscalYearTx(fiscalYears, r.tenant_id, r)
       IN /\ fiscalYears' = tx.fiscalYears
          /\ last' = [op |-> "create_fiscal_year", req |-> r, result |-> tx.result, id |-> None]
    /\ Len(fiscalYears') <= MaxFiscalYears
    /\ UNCHANGED <<masterVars, sessions, entries, invoices, today>>

CreateFiscalYear == Idle /\ \E r \in FiscalYearRequests : CreateFiscalYearStep(r)

(* POST /fiscal-years with any status text the schema accepts *)
CreateAnyFiscalYear == Idle /\ \E r \in AnyFiscalYearRequests : CreateFiscalYearStep(r)

(* PATCH /fiscal-years/{fiscal_year_id}/close *)
CloseFiscalYear ==
    /\ Idle
    /\ \E t \in Tenants, id \in 1..(Len(fiscalYears) + 1), pub \in PublishOutcomes :
          LET tx == CloseFiscalYearTx(fiscalYears, t, id)
          IN /\ fiscalYears' = IF Commit(tx.result, pub) THEN tx.fiscalYears ELSE fiscalYears
             /\ last' = [op |-> "close_fiscal_year",
                         req |-> [tenant_id |-> t, fiscal_year_id |-> id],
                         result |-> Outcome(tx.result, pub), id |-> None]
    /\ Len(fiscalYears') <= MaxFiscalYears
    /\ UNCHANGED <<masterVars, sessions, entries, invoices, today>>

(* POST /invoices *)
CreateInvoiceStep(r, max) ==
    /\ LET tx == CreateInvoiceTx(invoices, accounts, taxRates, customers, vendors,
                                 r.tenant_id, r)
       IN /\ invoices' = tx.invoices
          /\ last' = [op |-> "create_invoice", req |-> r, result |-> tx.result, id |-> tx.id]
    /\ Len(invoices') <= max
    /\ UNCHANGED <<masterVars, sessions, fiscalYears, entries, today>>

CreateInvoice == Idle /\ \E r \in CreateRequests : CreateInvoiceStep(r, MaxInvoices)

(* POST /invoices by either tenant with records of either tenant *)
CreateTenantInvoice ==
    Idle /\ \E r \in TenantCreateRequests : CreateInvoiceStep(r, MaxTenantInvoices)

(* POST /invoices with the dates that the aging reports tell apart *)
CreateDatedInvoice ==
    Idle /\ \E r \in DatedCreateRequests : CreateInvoiceStep(r, MaxAgedInvoices)

(* PATCH /invoices/{invoice_id} *)
UpdateInvoiceStep(r) ==
    /\ LET tx == UpdateInvoiceTx(invoices, accounts, taxRates, r.tenant_id, r.invoice_id, r)
       IN /\ invoices' = tx.invoices
          /\ last' = [op |-> "update_invoice", req |-> r, result |-> tx.result, id |-> None]
    /\ UNCHANGED <<masterVars, sessions, fiscalYears, entries, today>>

UpdateInvoice == Idle /\ \E r \in UpdateRequests : UpdateInvoiceStep(r)

(* PATCH /invoices/{invoice_id} by either tenant, lines of either tenant *)
UpdateTenantInvoice == Idle /\ \E r \in TenantUpdateRequests : UpdateInvoiceStep(r)

InvoiceDateRows(t, id) ==
    IF GetInvoice(invoices, t, id) = None THEN {None}
    ELSE FiscalYearRows(fiscalYears, t, invoices[id].invoice_date)

(* the request's two publish calls in turn: the second is reached only     *)
(* when the first returned                                                 *)
BothPublished(pubJournal, pubInvoice) ==
    IF pubJournal = "sent" THEN pubInvoice ELSE "raised"

(* the journal_entry_id of the finance.journal_posted event that the       *)
(* ledger call handed to the bus: the id of the flushed entry when the     *)
(* ledger call got as far as its publish and the publish returned          *)
JournalPostedEvent(result, pubJournal, id) ==
    IF result = "ok" /\ pubJournal = "sent" THEN id ELSE None

(* POST /invoices/{invoice_id}/submit: post_journal publishes              *)
(* finance.journal_posted (pubJournal), then submit_invoice publishes      *)
(* invoice.submitted (pubInvoice).  The invoice service hands publish_event *)
(* the payload where the bus expects the tenant id; the call is modelled   *)
(* by its two outcomes like every other publish.                           *)
SubmitInvoice ==
    /\ Idle
    /\ \E r \in InvoiceIdRequests :
       \E row \in InvoiceDateRows(r.tenant_id, r.invoice_id) :
       \E pubJournal \in PublishOutcomes, pubInvoice \in PublishOutcomes :
          LET tx == SubmitInvoiceTx(invoices, entries, fiscalYears, accounts, taxRates,
                                    customers, vendors, r.tenant_id, r.invoice_id, today, row)
              pub == BothPublished(pubJournal, pubInvoice)
          IN /\ invoices' = IF Commit(tx.result, pub) THEN tx.invoices ELSE invoices
             /\ entries' = IF Commit(tx.result, pub) THEN tx.entries ELSE entries
             /\ last' = [op |-> "submit_invoice", req |-> r,
                         result |-> Outcome(tx.result, pub),
                         id |-> IF Outcome(tx.result, pub) = "ok" THEN tx.id ELSE None,
                         journal_posted |-> JournalPostedEvent(tx.result, pubJournal, tx.id)]
    /\ Len(entries') <= MaxEntries
    /\ UNCHANGED <<masterVars, sessions, fiscalYears, today>>

(* POST /invoices/{invoice_id}/cancel: reverse_journal publishes           *)
(* finance.journal_posted, then cancel_invoice publishes invoice.cancelled *)
CancelInvoice ==
    /\ Idle
    /\ \E r \in InvoiceIdRequests :
       \E row \in FiscalYearRows(fiscalYears, r.tenant_id, today) :
       \E pubJournal \in PublishOutcomes, pubInvoice \in PublishOutcomes :
          LET tx == CancelInvoiceTx(invoices, entries, fiscalYears, r.tenant_id,
                                    r.invoice_id, today, row)
              pub == BothPublished(pubJournal, pubInvoice)
          IN /\ invoices' = IF Commit(tx.result, pub) THEN tx.invoices ELSE invoices
             /\ entries' = IF Commit(tx.result, pub) THEN tx.entries ELSE entries
             /\ last' = [op |-> "cancel_invoice", req |-> r,
                         result |-> Outcome(tx.result, pub),
                         id |-> IF Outcome(tx.result, pub) = "ok" THEN tx.id ELSE None,
                         journal_posted |-> JournalPostedEvent(tx.result, pubJournal, tx.id)]
    /\ Len(entries') <= MaxEntries
    /\ UNCHANGED <<masterVars, sessions, fiscalYears, today>>

(* the notes in the invoices table *)
Notes(invs) == {i \in 1..Len(invs) : invs[i].reversal_of # None}

(* POST /invoices/{invoice_id}/credit-note: create_credit_note publishes   *)
(* invoice.credit_note_issued                                              *)
CreateCreditNote ==
    /\ Idle
    /\ \E r \in InvoiceIdRequests, pub \in PublishOutcomes :
          LET tx == CreateCreditNoteTx(invoices, r.tenant_id, r.invoice_id, today)
          IN /\ invoices' = IF Commit(tx.result, pub) THEN tx.invoices ELSE invoices
             /\ last' = [op |-> "create_credit_note", req |-> r,
                         result |-> Outcome(tx.result, pub),
                         id |-> IF Outcome(tx.result, pub) = "ok" THEN tx.id ELSE None]
    /\ Cardinality(Notes(invoices')) <= MaxNotes
    /\ UNCHANGED <<masterVars, sessions, fiscalYears, entries, today>>

(* POST /invoices/{invoice_id}/debit-note: create_debit_note publishes     *)
(* no event                                                                *)
CreateDebitNote ==
    /\ Idle
    /\ \E r \in InvoiceIdRequests :
          LET tx == CreateDebitNoteTx(invoices, r.tenant_id, r.invoice_id, today)
          IN /\ invoices' = tx.invoices
             /\ last' = [op |-> "create_debit_note", req |-> r,
                         result |-> tx.result, id |-> tx.id]
    /\ Cardinality(Notes(invoices')) <= MaxNotes
    /\ UNCHANGED <<masterVars, sessions, fiscalYears, entries, today>>

(* GET /invoices/reports/ar-aging *)
GetArAging ==
    /\ Idle
    /\ \E r \in AgingRequests :
          last' = [op |-> "ar_aging", req |-> r, result |-> "ok", id |-> None,
                   report |-> ArAging(invoices, customers, r.tenant_id, r.as_of)]
    /\ UNCHANGED <<masterVars, sessions, fiscalYears, entries, invoices, today>>

(* GET /invoices/reports/ap-aging *)
GetApAging ==
    /\ Idle
    /\ \E r \in AgingRequests :
          last' = [op |-> "ap_aging", req |-> r, result |-> "ok", id |-> None,
                   report |-> ApAging(invoices, vendors, r.tenant_id, r.as_of)]
    /\ UNCHANGED <<masterVars, sessions, fiscalYears, entries, invoices, today>>

TrialBalanceRequests ==
    [tenant_id : Tenants, fiscal_year_id : 1..(Len(fiscalYears) + 1),
     as_of : {NoAsOf, 0, YearLen}]

(* GET /reports/trial-balance *)
GetTrialBalance ==
    /\ Idle
    /\ \E r \in TrialBalanceRequests :
          LET tb == TrialBalanceGet(entries, fiscalYears, accounts,
                                    r.tenant_id, r.fiscal_year_id, r.as_of)
          IN last' = [op |-> "get_trial_balance", req |-> r, result |-> tb.result,
                      id |-> None, report |-> tb]
    /\ UNCHANGED <<masterVars, sessions, fiscalYears, entries, invoices, today>>

(* the calendar moves on between requests *)
AdvanceDay ==
    /\ Idle
    /\ today < MaxDay
    /\ today' = today + 1
    /\ UNCHANGED <<masterVars, sessions, fiscalYears, entries, invoices, last>>

(* the response is read; the next request can be served *)
Respond ==
    /\ ~Idle
    /\ last' = NoLast
    /\ UNCHANGED <<masterVars, sessions, fiscalYears, entries, invoices, today>>

---------------------------------------------------------------------------
Init ==
    /\ accounts = InitAccounts
    /\ taxRates = InitTaxRates
    /\ customers = InitCustomers
    /\ vendors = InitVendors
    /\ users = InitUsers
    /\ today = 0
    /\ fiscalYears = <<SeedFiscalYear("t1", 0), SeedFiscalYear("t2", 0)>>
    /\ entries = <<>>
    /\ invoices = <<>>
    /\ last = NoLast
    /\ sessions = NoSessions

(* the ledger alone, with every journal body *)
NextLedger ==
    \/ PostJournal
    \/ ReverseJournal
    \/ CreateFiscalYear
    \/ CloseFiscalYear
    \/ AdvanceDay
    \/ Respond

SpecLedger == Init /\ [][NextLedger]_vars

(* the ledger and the invoices *)
Next ==
    \/ PostPlainJournal
    \/ ReverseJournal
    \/ CreateFiscalYear
    \/ CloseFiscalYear
    \/ CreateInvoice
    \/ UpdateInvoice
    \/ SubmitInvoice
    \/ CancelInvoice
    \/ AdvanceDay
    \/ Respond

Spec == Init /\ [][Next]_vars

(* The fiscal years alone: tenant t1 has its seeded year, tenant t2 has   *)
(* none yet, and a year is created with any status.                       *)
InitYears ==
    /\ accounts = InitAccounts
    /\ taxRates = InitTaxRates
    /\ customers = InitCustomers
    /\ vendors = InitVendors
    /\ users = InitUsers
    /\ fiscalYears = <<SeedFiscalYear("t1", 0)>>
    /\ entries = <<>>
    /\ invoices = <<>>
    /\ today = 0
    /\ last = NoLast
    /\ sessions = NoSessions

NextYears ==
    \/ CreateAnyFiscalYear
    \/ CloseFiscalYear
    \/ Respond

SpecYears == InitYears /\ [][NextYears]_vars

(* The ledger with its report *)
AccountRequests == [tenant_id : Tenants, account_id : {"AR", "Sales", "AR2", MissingAccount}]

AccountUpdateRequests ==
    [tenant_id : Tenants, account_id : {"AR", "Sales", "AR2", MissingAccount},
     is_active : {Unset, "true", "false"}]

(* PATCH /accounts/{account_id} *)
UpdateAccount ==
    /\ Idle
    /\ \E r \in AccountUpdateRequests :
          LET tx == UpdateAccountTx(accounts, r.tenant_id, r.account_id, r)
          IN /\ accounts' = tx.accounts
             /\ last' = [op |-> "update_account", req |-> r, result |-> tx.result, id |-> None]
    /\ UNCHANGED <<taxRates, customers, vendors, users, sessions, fiscalYears, entries,
                   invoices, today>>

(* DELETE /accounts/{account_id} *)
DeactivateAccount ==
    /\ Idle
    /\ \E r \in AccountRequests :
          LET tx == DeactivateAccountTx(accounts, entries, r.tenant_id, r.account_id)
          IN /\ accounts' = tx.accounts
             /\ last' = [op |-> "deactivate_account", req |-> r, result |-> tx.result,
                         id |-> None]
    /\ UNCHANGED <<taxRates, customers, vendors, users, sessions, fiscalYears, entries,
                   invoices, today>>

(* The chart of accounts with the ledger *)
NextAccounts ==
    \/ PostPlainJournal
    \/ ReverseJournal
    \/ UpdateAccount
    \/ DeactivateAccount
    \/ Respond

SpecAccounts == Init /\ [][NextAccounts]_vars

(* The trial balance of a ledger with every journal body *)
NextLedgerReport ==
    \/ PostJournal
    \/ ReverseJournal
    \/ GetTrialBalance
    \/ Respond

SpecLedgerReport == Init /\ [][NextLedgerReport]_vars

NextTrialBalance ==
    \/ PostPlainJournal
    \/ ReverseJournal
    \/ CloseFiscalYear
    \/ GetTrialBalance
    \/ AdvanceDay
    \/ Respond

SpecTrialBalance == Init /\ [][NextTrialBalance]_vars

---------------------------------------------------------------------------
(* Authentication of a request (api/deps.py) and the answer to a request   *)
(* whose dependency or handler raised (main.py).                           *)

NoToken == [signed |-> FALSE, exp |-> 0, sub |-> "none", type |-> "none"]
NoSub == "none"

(* HTTPBearer(auto_error=False): the credentials of a Bearer header, None  *)
(* for a missing header and for another scheme                             *)
Security(r) == IF r.authorization = "bearer" THEN r.token ELSE NoToken

(* decode_token: jwt.decode verifies the signature, then the exp claim     *)
DecodeToken(token, day) ==
    IF ~token.signed THEN "JWTError"
    ELSE IF token.exp < day THEN "ExpiredSignatureError"
    ELSE "ok"

(* get_token_payload: the exception it raises, or "ok" with the payload *)
GetTokenPayload(r, day) ==
    IF Security(r) = NoToken THEN "AuthenticationError"
    ELSE IF DecodeToken(r.token, day) = "ExpiredSignatureError" THEN "TokenExpiredError"
    ELSE IF DecodeToken(r.token, day) = "JWTError" THEN "InvalidTokenError"
    ELSE IF r.token.sub = NoSub THEN "KeyError"
    ELSE "ok"

(* get_current_user *)
GetCurrentUser(usrs, r, day) ==
    IF GetTokenPayload(r, day) # "ok" THEN GetTokenPayload(r, day)
    ELSE IF r.token.sub \notin DOMAIN usrs THEN "UserNotFoundError"
    ELSE IF ~usrs[r.token.sub].is_active THEN "AuthenticationError"
    ELSE IF usrs[r.token.sub].is_deleted THEN "AuthenticationError"
    ELSE "ok"

(* the status_code attribute of the exception classes; 0 where the class   *)
(* has none                                                                *)
StatusCode(exc) ==
    CASE exc \in {"AuthenticationError", "TokenExpiredError", "InvalidTokenError"} -> 401
      [] exc = "UserNotFoundError" -> 404
      [] OTHER -> 0

(* global_exception_handler, the only handler the application registers:   *)
(* status 500 whatever was raised                                          *)
GlobalExceptionHandler(exc) == [status |-> 500, user |-> NoSub]

(* GET /api/v1/users/me: the user of the token, or the answer of the       *)
(* exception handler; status_code is the attribute of the exception raised *)
GetMeResponse(usrs, r, day) ==
    IF GetCurrentUser(usrs, r, day) = "ok"
    THEN [status |-> 200, user |-> r.token.sub]
    ELSE GlobalExceptionHandler(GetCurrentUser(usrs, r, day))

Tokens ==
    [signed : BOOLEAN, exp : 0..(MaxDay + 1), sub : {"u1", "u2", "u3", "u9", NoSub},
     type : {"access", "refresh"}]

GetMeRequests ==
    {[tenant_id |-> "t1", authorization |-> a, token |-> NoToken] : a \in {"none", "basic"}}
    \cup {[tenant_id |-> "t1", authorization |-> "bearer", token |-> tok] : tok \in Tokens}

GetMe ==
    /\ Idle
    /\ \E r \in GetMeRequests :
          last' = [op |-> "get_me", req |-> r, result |-> GetCurrentUser(users, r, today),
                   id |-> None,
                   status_code |-> StatusCode(GetCurrentUser(users, r, today)),
                   response |-> GetMeResponse(users, r, today)]
    /\ UNCHANGED <<masterVars, sessions, fiscalYears, entries, invoices, today>>

(* The protected endpoint alone *)
NextAuth ==
    \/ GetMe
    \/ AdvanceDay
    \/ Respond

SpecAuth == Init /\ [][NextAuth]_vars

(* The two tenants side by side *)
NextTenants ==
    \/ PostPlainJournal
    \/ ReverseJournal
    \/ CloseFiscalYear
    \/ CreateTenantInvoice
    \/ UpdateTenantInvoice
    \/ SubmitInvoice
    \/ CancelInvoice
    \/ CreateCreditNote
    \/ GetTrialBalance
    \/ Respond

SpecTenants == Init /\ [][NextTenants]_vars

(* The invoices with the aging reports *)
NextAging ==
    \/ CreateDatedInvoice
    \/ SubmitInvoice
    \/ CancelInvoice
    \/ GetArAging
    \/ GetApAging
    \/ Respond

SpecAging == Init /\ [][NextAging]_vars

(* The invoices with their credit and debit notes *)
NextNotes ==
    \/ CreateInvoice
    \/ UpdateInvoice
    \/ SubmitInvoice
    \/ CancelInvoice
    \/ CreateCreditNote
    \/ CreateDebitNote
    \/ AdvanceDay
    \/ Respond

SpecNotes == Init /\ [][NextNotes]_vars

---------------------------------------------------------------------------
(* Requests that overlap in time.  Each request runs in its own session   *)
(* (get_db), the database isolates them at READ COMMITTED: a statement     *)
(* sees what was committed before it, the rows a session has flushed are   *)
(* seen by the others once it commits.  A journal request is two steps:    *)
(* the statements up to the INSERT, and the publish with the commit.       *)

OverlapPostRequests ==
    {JournalRequest("t1", d, PlainLines("t1")) : d \in {0, YearLen}}

OverlapReverseRequests ==
    [tenant_id : {"t1"}, entry_id : 1..Len(entries),
     reversal_date : {0}, description : {<<"rev", 0>>}]

(* the row a session holds flushed and not yet committed *)
Staged(tx) == tx.entries[tx.id]

(* the flushed row stored under the number that is free at the commit *)
StoreRenumbered(ents, staged) ==
    Append(ents, [staged EXCEPT !.journal_number = NextJournalNumber(ents, staged.tenant_id)])

(* session.commit(): the flushed row becomes visible as it was built *)
StoreStaged(ents, staged) == Append(ents, staged)

(* the commit of a session: the INSERT of the entry and, for a reversal,   *)
(* the UPDATE of original.reversed_by                                      *)
CommitSession(ents, ses) ==
    IF ses.op = "reverse_journal"
    THEN LinkReversedBy(StoreStaged(ents, ses.staged), ses.req.entry_id, Len(ents) + 1)
    ELSE StoreStaged(ents, ses.staged)

(* post_journal from validate_lines to the flush of the entry and its lines *)
BeginPostJournal(w) ==
    /\ Idle
    /\ sessions[w] = NoSession
    /\ \E r \in OverlapPostRequests :
       \E floatAbove \in FloatOutcomes(r.lines) :
       \E row \in FiscalYearRows(fiscalYears, r.tenant_id, r.posting_date) :
          LET v == ValidateLines(r, today, floatAbove)
              tx == PostJournalTx(entries, fiscalYears, accounts, r.tenant_id, r, row)
          IN IF v = "ok" /\ tx.result = "ok"
             THEN /\ sessions' = [sessions EXCEPT ![w] =
                          [op |-> "post_journal", req |-> r, staged |-> Staged(tx)]]
                  /\ last' = last
             ELSE /\ sessions' = sessions
                  /\ last' = [op |-> "post_journal", req |-> r,
                              result |-> IF v # "ok" THEN v ELSE tx.result, id |-> None]
    /\ UNCHANGED <<masterVars, fiscalYears, entries, invoices, today>>

(* reverse_journal from get_journal_entry to the flush of the reversal *)
BeginReverseJournal(w) ==
    /\ Idle
    /\ sessions[w] = NoSession
    /\ \E r \in OverlapReverseRequests :
       \E row \in FiscalYearRows(fiscalYears, r.tenant_id, r.reversal_date) :
          LET tx == ReverseJournalTx(entries, fiscalYears, r.tenant_id, r.entry_id,
                                     r.reversal_date, r.description, row)
          IN IF tx.result = "ok"
             THEN /\ sessions' = [sessions EXCEPT ![w] =
                          [op |-> "reverse_journal", req |-> r, staged |-> Staged(tx)]]
                  /\ last' = last
             ELSE /\ sessions' = sessions
                  /\ last' = [op |-> "reverse_journal", req |-> r,
                              result |-> tx.result, id |-> None]
    /\ UNCHANGED <<masterVars, fiscalYears, entries, invoices, today>>

(* publish_event, the return of the handler and get_db's commit or rollback *)
FinishJournal(w) ==
    /\ Idle
    /\ sessions[w] # NoSession
    /\ \E pub \in PublishOutcomes :
          /\ entries' = IF Commit("ok", pub) THEN CommitSession(entries, sessions[w]) ELSE entries
          /\ last' = [op |-> sessions[w].op, req |-> sessions[w].req,
                      result |-> Outcome("ok", pub),
                      id |-> IF Outcome("ok", pub) = "ok" THEN Len(entries) + 1 ELSE None]
    /\ sessions' = [sessions EXCEPT ![w] = NoSession]
    /\ Len(entries') <= MaxOverlapEntries
    /\ UNCHANGED <<masterVars, fiscalYears, invoices, today>>

(* submit_invoice from get_invoice to its last flush: the journal entry    *)
(* and the invoice row as this session will write them                     *)
BeginSubmitInvoice(w) ==
    /\ Idle
    /\ sessions[w] = NoSession
    /\ \E r \in InvoiceIdRequests :
       \E row \in InvoiceDateRows(r.tenant_id, r.invoice_id) :
          LET tx == SubmitInvoiceTx(invoices, entries, fiscalYears, accounts, taxRates,
                                    customers, vendors, r.tenant_id, r.invoice_id, today, row)
          IN IF tx.result = "ok"
             THEN /\ sessions' = [sessions EXCEPT ![w] =
                          [op |-> "submit_invoice", req |-> r, staged |-> Staged(tx),
                           invoice |-> tx.invoices[r.invoice_id]]]
                  /\ last' = last
             ELSE /\ sessions' = sessions
                  /\ last' = [op |-> "submit_invoice", req |-> r,
                              result |-> tx.result, id |-> None]
    /\ UNCHANGED <<masterVars, fiscalYears, entries, invoices, today>>

(* the UPDATE of the invoice row at the commit: the row as the session     *)
(* flushed it, whatever was committed to it meanwhile                      *)
StoreInvoice(invs, ses, jeid) ==
    [invs EXCEPT ![ses.req.invoice_id] = [ses.invoice EXCEPT !.journal_entry_id = jeid]]

(* the two publish calls, the return of the handler and get_db's commit or *)
(* rollback                                                                *)
FinishSubmitInvoice(w) ==
    /\ Idle
    /\ sessions[w] # NoSession
    /\ sessions[w].op = "submit_invoice"
    /\ \E pubJournal \in PublishOutcomes, pubInvoice \in PublishOutcomes :
          LET pub == BothPublished(pubJournal, pubInvoice)
          IN /\ entries' = IF Commit("ok", pub) THEN StoreStaged(entries, sessions[w].staged)
                           ELSE entries
             /\ invoices' = IF Commit("ok", pub)
                            THEN StoreInvoice(invoices, sessions[w], Len(entries) + 1)
                            ELSE invoices
             /\ last' = [op |-> "submit_invoice", req |-> sessions[w].req,
                         result |-> Outcome("ok", pub),
                         id |-> IF Outcome("ok", pub) = "ok" THEN Len(entries) + 1 ELSE None]
    /\ sessions' = [sessions EXCEPT ![w] = NoSession]
    /\ Len(entries') <= MaxOverlapEntries
    /\ UNCHANGED <<masterVars, fiscalYears, today>>

(* Submissions that overlap *)
NextSubmitOverlap ==
    \/ CreateInvoice
    \/ \E w \in Workers : BeginSubmitInvoice(w)
    \/ \E w \in Workers : FinishSubmitInvoice(w)
    \/ CancelInvoice
    \/ Respond

SpecSubmitOverlap == Init /\ [][NextSubmitOverlap]_vars

NextOverlap ==
    \/ \E w \in Workers : BeginPostJournal(w)
    \/ \E w \in Workers : BeginReverseJournal(w)
    \/ \E w \in Workers : FinishJournal(w)
    \/ CloseFiscalYear
    \/ Respond

SpecOverlap == Init /\ [][NextOverlap]_vars

---------------------------------------------------------------------------
(* Properties *)

(* the step in which a request of the given operation is served *)
Serves(op) == Idle /\ last'.op = op

Imbalance(lines) == Abs(SumOf(lines, "debit") - SumOf(lines, "credit"))

(* C1: in every stored journal entry the total of the debits equals the    *)
(* total of the credits, within 0.0001, whatever sequence of postings,     *)
(* reversals, submissions and cancellations led to the state.              *)
C1_EntriesBalanced ==
    \A i \in 1..Len(entries) : Imbalance(entries[i].lines) <= Eps

(* a fiscal year row of tenant t whose dates contain day d *)
YearContains(i, t, d) ==
    /\ fiscalYears[i].tenant_id = t
    /\ fiscalYears[i].start_date <= d
    /\ d <= fiscalYears[i].end_date

RequestDate(l) ==
    IF l.op = "post_journal" THEN l.req.posting_date ELSE l.req.reversal_date

C2_Step ==
    Serves("post_journal") \/ Serves("reverse_journal") =>
        LET t == last'.req.tenant_id
            d == RequestDate(last')
            years == 1..Len(fiscalYears)
        IN /\ Len(entries') > Len(entries) =>
                LET e == entries'[Len(entries')]
                IN /\ e.fiscal_year_id \in years
                   /\ YearContains(e.fiscal_year_id, e.tenant_id, e.posting_date)
                   /\ fiscalYears[e.fiscal_year_id].status = "open"
                   /\ e.tenant_id = t
                   /\ e.posting_date = d
           /\ (\/ \A i \in years : ~YearContains(i, t, d)
               \/ \E i \in years : YearContains(i, t, d) /\ fiscalYears[i].status = "closed")
              => /\ entries' = entries
                 /\ last'.result # "ok"

(* C2: an entry created by post_journal or reverse_journal references a    *)
(* fiscal year of its own tenant that contains its posting date and was    *)
(* open at that moment; a request whose date falls in no fiscal year of    *)
(* the tenant, or in a closed one, is rejected and stores nothing.         *)
C2_PostingInOpenYear == [][C2_Step]_vars

PostableAccount(t, a) ==
    a \in DOMAIN accounts /\ accounts[a].tenant_id = t /\ ~accounts[a].is_group

C3_Stored ==
    \A i \in 1..Len(entries) : \A k \in 1..Len(entries[i].lines) :
        PostableAccount(entries[i].tenant_id, entries[i].lines[k].account_id)

C3_Step ==
    (/\ Serves("post_journal")
     /\ \E k \in 1..Len(last'.req.lines) :
            ~PostableAccount(last'.req.tenant_id, last'.req.lines[k].account_id))
    => /\ entries' = entries
       /\ last'.result # "ok"

(* C3: every stored journal line references a non-group account of the     *)
(* tenant of its entry; post_journal rejects a request with a line on a    *)
(* group account, a missing account or another tenant's account, and       *)
(* stores nothing.                                                         *)
C3_LinesOnOwnLeafAccounts == []C3_Stored /\ [][C3_Step]_vars

C3_Witness ==
    /\ last.op = "post_journal"
    /\ last.result = "group_account"
    /\ last.req.tenant_id = "t1"
    /\ \E i \in 1..Len(entries) : entries[i].tenant_id = "t1" /\ Len(entries[i].lines) >= 2

(* the three defects of a journal body that C4 names *)
Malformed(lines) ==
    \/ Len(lines) < 2
    \/ \E k \in 1..Len(lines) :
          \/ lines[k].debit > 0 /\ lines[k].credit > 0
          \/ lines[k].debit = 0 /\ lines[k].credit = 0
    \/ Imbalance(lines) > Eps

C4_Step ==
    (Serves("post_journal") /\ Malformed(last'.req.lines))
    => /\ entries' = entries
       /\ last'.result \in {"too_few_lines", "debit_credit", "unbalanced"}
       /\ \A t \in Tenants : NextJournalNumber(entries', t) = NextJournalNumber(entries, t)

(* C4: a journal request with fewer than two lines, with a line whose      *)
(* debit and credit are both positive or both zero, or with totals that    *)
(* differ by more than 0.0001 is rejected with a validation error; no      *)
(* entry or line is stored and no journal number is used.                  *)
C4_MalformedRejected == [][C4_Step]_vars

C4_Witness ==
    /\ last.op = "post_journal"
    /\ last.result = "unbalanced"
    /\ Imbalance(last.req.lines) > Eps
    /\ Len(entries) > 0

(* two amounts that agree in the four decimal places a column keeps *)
SameAmount(stored, x) == 2 * Abs(stored - x) <= Scale

(* the posting C5 describes: a line on the account of each invoice line    *)
(* for its line_total, a line on the linked account of the tax rate for    *)
(* line_total x rate after each taxed line; onCredit tells the side        *)
RECURSIVE DescribedLines(_, _)
DescribedLines(lines, onCredit) ==
    IF lines = <<>> THEN <<>>
    ELSE LET l == Head(lines)
             side(a, x) == IF onCredit THEN [account_id |-> a, debit |-> 0, credit |-> x]
                                       ELSE [account_id |-> a, debit |-> x, credit |-> 0]
             tax == IF l.tax_rate_id = NoRate THEN <<>>
                    ELSE <<side(taxRates[l.tax_rate_id].linked_account_id,
                                (l.line_total * taxRates[l.tax_rate_id].rate) \div 100)>>
         IN <<side(l.account_id, l.line_total)>> \o tax \o DescribedLines(Tail(lines), onCredit)

DescribedPosting(inv) ==
    LET sales == inv.invoice_type = "sales"
        sub == DescribedLines(inv.lines, sales)
        total == SumOf(sub, "debit") + SumOf(sub, "credit")
        control == IF sales
                   THEN [account_id |-> customers[inv.party_id].receivable_account_id,
                         debit |-> total, credit |-> 0]
                   ELSE [account_id |-> vendors[inv.party_id].payable_account_id,
                         debit |-> 0, credit |-> total]
    IN Append(sub, control)

C5_Step ==
    (/\ Serves("submit_invoice")
     /\ last'.result = "ok"
     /\ LET inv == invoices[last'.req.invoice_id]
        IN \/ inv.invoice_type = "sales" /\ inv.party_type = "customer"
           \/ inv.invoice_type = "purchase" /\ inv.party_type = "vendor")
    => LET id == last'.req.invoice_id
           want == DescribedPosting(invoices[id])
           got == entries'[last'.id].lines
           control == want[Len(want)]
       IN /\ Len(entries') = Len(entries) + 1
          /\ last'.id = Len(entries')
          /\ Len(got) = Len(want)
          /\ \A k \in 1..Len(want) :
                /\ got[k].account_id = want[k].account_id
                /\ SameAmount(got[k].debit, want[k].debit)
                /\ SameAmount(got[k].credit, want[k].credit)
          /\ Cardinality({k \in 1..Len(got) : got[k].account_id = control.account_id}) = 1
          /\ invoices'[id].total = invoices'[id].subtotal + invoices'[id].total_tax
          /\ SameAmount(invoices'[id].total, control.debit + control.credit)

InvoiceReference(inv) == <<"INV-", inv.invoice_number>>

C6_State ==
    \A i \in 1..Len(invoices) :
        LET inv == invoices[i]
        IN /\ inv.status = "submitted" =>
                /\ inv.journal_entry_id \in 1..Len(entries)
                /\ entries[inv.journal_entry_id].status = "posted"
                /\ entries[inv.journal_entry_id].tenant_id = inv.tenant_id
                /\ entries[inv.journal_entry_id].reference = InvoiceReference(inv)
           /\ inv.status = "draft" =>
                /\ inv.journal_entry_id = None
                /\ \A e \in 1..Len(entries) :
                      ~(/\ entries[e].tenant_id = inv.tenant_id
                        /\ entries[e].reference = InvoiceReference(inv))

C6_Step ==
    Serves("submit_invoice") =>
        LET id == last'.req.invoice_id
        IN \/ /\ last'.result = "ok"
              /\ invoices[id].status = "draft"
              /\ invoices'[id].status = "submitted"
              /\ Len(entries') = Len(entries) + 1
              /\ invoices'[id].journal_entry_id = Len(entries')
              /\ entries'[Len(entries')].status = "posted"
           \/ /\ last'.result # "ok"
              /\ invoices' = invoices
              /\ entries' = entries

(* C6: a submit either leaves the invoice submitted with journal_entry_id  *)
(* on a posted entry created by that request, or leaves the invoice, its   *)
(* totals and line tax amounts and the ledger as they were; in no state is *)
(* an invoice submitted without its entry or an entry stored for a draft.  *)
C6_SubmitAllOrNothing == []C6_State /\ [][C6_Step]_vars

C6_Witness ==
    /\ last.op = "submit_invoice"
    /\ last.result = "publish_failed"
    /\ invoices[last.req.invoice_id].status = "draft"
    /\ invoices[last.req.invoice_id].total_tax = 0
    /\ entries = <<>>

(* the lines of r are those of e with debit and credit exchanged *)
Mirrored(e, r) ==
    /\ Len(r.lines) = Len(e.lines)
    /\ \A k \in 1..Len(e.lines) :
          /\ r.lines[k].account_id = e.lines[k].account_id
          /\ r.lines[k].debit = e.lines[k].credit
          /\ r.lines[k].credit = e.lines[k].debit

C7_State ==
    \A x \in 1..Len(entries), y \in 1..Len(entries) :
        entries[x].reversed_by = y <=> entries[y].reversal_of = x

C7_Step ==
    (Serves("reverse_journal") /\ last'.result = "ok")
    => LET x == last'.req.entry_id
           y == last'.id
       IN /\ entries[x].status = "posted"
          /\ entries[x].reversed_by = None
          /\ y = Len(entries) + 1
          /\ Len(entries') = y
          /\ entries'[y].status = "posted"
          /\ entries'[y].reversal_of = x
          /\ entries'[x].reversed_by = y
          /\ Mirrored(entries[x], entries'[y])

(* C7: reverse_journal on a posted, unreversed entry e creates a posted    *)
(* entry r with e's lines, debit and credit exchanged, r.reversal_of = e   *)
(* and e.reversed_by = r; for all entries x.reversed_by = y exactly when   *)
(* y.reversal_of = x.                                                      *)
C7_ReversalMirrors == []C7_State /\ [][C7_Step]_vars

C7_Witness ==
    /\ last.op = "reverse_journal"
    /\ last.result = "ok"
    /\ entries[last.id].reversal_of = last.req.entry_id
    /\ entries[last.req.entry_id].reversed_by = last.id
    /\ \E k \in 1..Len(entries[last.id].lines) : entries[last.id].lines[k].debit > 0

C8_State ==
    \A i \in 1..Len(invoices) :
        invoices[i].status = "cancelled" =>
            LET je == invoices[i].journal_entry_id
            IN /\ je \in 1..Len(entries)
               /\ entries[je].reversed_by \in 1..Len(entries)
               /\ Mirrored(entries[je], entries[entries[je].reversed_by])

(* an open fiscal year of tenant t contains day d *)
OpenYearFor(t, d) ==
    \E i \in 1..Len(fiscalYears) :
        YearContains(i, t, d) /\ fiscalYears[i].status = "open"

C8_Step ==
    Serves("cancel_invoice") =>
        LET t == last'.req.tenant_id
            id == last'.req.invoice_id
        IN /\ last'.result # "ok" => invoices' = invoices
           /\ (/\ id \in 1..Len(invoices)
               /\ invoices[id].tenant_id = t
               /\ invoices[id].status = "submitted"
               /\ \/ ~OpenYearFor(t, today)
                  \/ entries[invoices[id].journal_entry_id].reversed_by # None)
              => /\ last'.result # "ok"
                 /\ invoices'[id].status = "submitted"

(* C8: every cancelled invoice has a journal entry whose reversed_by is    *)
(* set, and the entry it points to carries the same accounts and amounts   *)
(* with debit and credit exchanged; when the reversal is refused (no open  *)
(* fiscal year for today, entry already reversed) the invoice stays        *)
(* submitted.                                                              *)
C8_CancelReverses == []C8_State /\ [][C8_Step]_vars

C8_Witness ==
    /\ last.op = "cancel_invoice"
    /\ last.result = "ok"
    /\ invoices[last.req.invoice_id].status = "cancelled"
    /\ entries[invoices[last.req.invoice_id].journal_entry_id].reversed_by = last.id
    /\ Len(entries[last.id].lines) >= 3

C9_Step ==
    /\ Len(entries') >= Len(entries)
    /\ \A i \in 1..Len(entries) :
          /\ entries'[i].tenant_id = entries[i].tenant_id
          /\ entries'[i].journal_number = entries[i].journal_number
          /\ entries'[i].posting_date = entries[i].posting_date
          /\ entries'[i].fiscal_year_id = entries[i].fiscal_year_id
          /\ entries'[i].status = entries[i].status
          /\ entries'[i].description = entries[i].description
          /\ entries'[i].reference = entries[i].reference
          /\ entries'[i].reversal_of = entries[i].reversal_of
          /\ entries'[i].lines = entries[i].lines
          /\ \/ entries'[i].reversed_by = entries[i].reversed_by
             \/ /\ entries[i].reversed_by = None
                /\ entries'[i].reversed_by \in (Len(entries) + 1)..Len(entries')

StatusMoves == {<<"draft", "submitted">>, <<"submitted", "cancelled">>}

C10_Step ==
    /\ Len(invoices') >= Len(invoices)
    /\ \A i \in 1..Len(invoices) :
          \/ invoices'[i].status = invoices[i].status
          \/ <<invoices[i].status, invoices'[i].status>> \in StatusMoves
    /\ \A op \in {"update_invoice", "submit_invoice", "cancel_invoice"} :
          Serves(op) =>
             LET t == last'.req.tenant_id
                 id == last'.req.invoice_id
                 known == id \in 1..Len(invoices) /\ invoices[id].tenant_id = t
                 needed == IF op = "cancel_invoice" THEN "submitted" ELSE "draft"
             IN /\ (known /\ invoices[id].status # needed) => last'.result # "ok"
                /\ last'.result # "ok" => invoices' = invoices /\ entries' = entries
                /\ (op = "update_invoice" /\ last'.result = "ok") =>
                       invoices'[id].status = "draft"
                /\ (op = "submit_invoice" /\ last'.result = "ok") =>
                       invoices'[id].status = "submitted"
                /\ (op = "cancel_invoice" /\ last'.result = "ok") =>
                       invoices'[id].status = "cancelled"

(* C10: the status of an invoice only moves draft -> submitted ->          *)
(* cancelled; update and submit are rejected unless the invoice is a       *)
(* draft, cancel is rejected unless it is submitted, cancelled is          *)
(* terminal, and a rejected call leaves the invoice, its lines and the     *)
(* ledger unchanged.                                                       *)
C10_StatusMachine == [][C10_Step]_vars

C10_Witness ==
    /\ last.op \in {"update_invoice", "submit_invoice", "cancel_invoice"}
    /\ last.result \in {"immutable", "not_draft", "not_submitted"}
    /\ invoices[last.req.invoice_id].status = "cancelled"

---------------------------------------------------------------------------
(* C11: once a tenant has one open fiscal year, every create_fiscal_year   *)
(* and close_fiscal_year call leaves it with exactly one open fiscal year; *)
(* create_fiscal_year with status open is refused with a conflict while    *)
(* one is open; a successful close_fiscal_year closes the year and creates *)
(* the next year as open.                                                  *)
OpenCount(fys, t) == Cardinality(GetOpenFiscalYear(fys, t))

C11_Step ==
    /\ \A t \in Tenants : OpenCount(fiscalYears, t) = 1 => OpenCount(fiscalYears', t) = 1
    /\ (Serves("create_fiscal_year") /\ last'.req.status = "open"
            /\ GetOpenFiscalYear(fiscalYears, last'.req.tenant_id) # {})
         => (last'.result = "open_year_exists" /\ fiscalYears' = fiscalYears)
    /\ (Serves("close_fiscal_year") /\ last'.result = "ok")
         => LET id == last'.req.fiscal_year_id
                n == Len(fiscalYears')
            IN /\ fiscalYears'[id].status = "closed"
               /\ n = Len(fiscalYears) + 1
               /\ fiscalYears'[n].tenant_id = last'.req.tenant_id
               /\ fiscalYears'[n].status = "open"
               /\ fiscalYears'[n].start_date = fiscalYears[id].end_date + 1

C11_OneOpenFiscalYear == [][C11_Step]_vars

---------------------------------------------------------------------------
(* C12: closing is one-way.  A successful close_fiscal_year of an open     *)
(* year leaves it closed; no step of any operation changes the status of   *)
(* a closed year or removes a year; close_fiscal_year on a closed year of  *)
(* the tenant answers with the conflict, and the fiscal years stay as they *)
(* were (no further year is created).                                      *)
C12_Step ==
    /\ Len(fiscalYears') >= Len(fiscalYears)
    /\ \A i \in 1..Len(fiscalYears) :
          fiscalYears[i].status = "closed" => fiscalYears'[i].status = "closed"
    /\ Serves("close_fiscal_year") =>
          LET t == last'.req.tenant_id
              id == last'.req.fiscal_year_id
          IN (id \in 1..Len(fiscalYears) /\ fiscalYears[id].tenant_id = t) =>
                /\ (fiscalYears[id].status = "open" /\ last'.result = "ok")
                      => fiscalYears'[id].status = "closed"
                /\ fiscalYears[id].status = "closed"
                      => (last'.result = "already_closed" /\ fiscalYears' = fiscalYears)

C12_CloseOneWay == [][C12_Step]_vars

C12_Witness ==
    /\ last.op = "close_fiscal_year"
    /\ last.result = "already_closed"
    /\ fiscalYears[last.req.fiscal_year_id].status = "closed"
    /\ \E i \in 1..Len(fiscalYears) :
          fiscalYears[i].tenant_id = last.req.tenant_id /\ fiscalYears[i].status = "open"

---------------------------------------------------------------------------
(* C13: MAX()+1 races.  A post_journal or reverse_journal session takes as *)
(* journal_number the committed maximum of the tenant plus one, whatever   *)
(* the other sessions hold uncommitted; at its commit the entry is stored  *)
(* under that number also when a committed entry of the tenant has it by   *)
(* then, and no commit is refused for the number.  Two overlapping         *)
(* sessions so store two entries with one journal_number.                  *)
BeginsSession(w) == sessions[w] = NoSession /\ sessions'[w] # NoSession
FinishesSession(w) == sessions[w] # NoSession /\ sessions'[w] = NoSession

C13_Step ==
    \A w \in Workers :
       /\ BeginsSession(w) =>
             sessions'[w].staged.journal_number
                = NextJournalNumber(entries, sessions'[w].req.tenant_id)
       /\ FinishesSession(w) =>
             /\ last'.result \in {"ok", "publish_failed"}
             /\ last'.result = "ok" =>
                   /\ Len(entries') = Len(entries) + 1
                   /\ entries'[Len(entries')].journal_number
                        = sessions[w].staged.journal_number

C13_NumberRace == [][C13_Step]_vars

C13_Witness ==
    /\ last.op \in {"post_journal", "reverse_journal"}
    /\ last.result = "ok"
    /\ \E i \in 1..Len(entries) :
          /\ i # last.id
          /\ entries[i].tenant_id = entries[last.id].tenant_id
          /\ entries[i].journal_number = entries[last.id].journal_number

---------------------------------------------------------------------------
(* C20: no journal entry is stored in a fiscal year after that year was    *)
(* closed, also when the posting overlaps close_fiscal_year: whenever a    *)
(* step stores an entry, the fiscal year the entry refers to is open.      *)
C20_Step ==
    Len(entries') > Len(entries) =>
        fiscalYears'[entries'[Len(entries')].fiscal_year_id].status = "open"

C20_NoEntryInClosedYear == [][C20_Step]_vars

---------------------------------------------------------------------------
(* C14: submitting a credit note made from a sales invoice, or a debit     *)
(* note made from a purchase invoice, posts the mirror of the original     *)
(* invoice's entry: line by line the same account and amounts with debit   *)
(* and credit swapped, so that both entries together net to zero on every  *)
(* account.  The tax rates never change in the model.                      *)
NoteOfOriginal(inv) ==
    /\ inv.reversal_of # None
    /\ \/ inv.invoice_type = "credit_note" /\ invoices[inv.reversal_of].invoice_type = "sales"
       \/ inv.invoice_type = "debit_note" /\ invoices[inv.reversal_of].invoice_type = "purchase"

NetOn(a, lines) ==
    LET own == SelectSeq(lines, LAMBDA l : l.account_id = a)
    IN SumOf(own, "debit") - SumOf(own, "credit")

MirrorPosted(note) ==
    LET e == entries'[Len(entries')]
        o == entries[invoices[note.reversal_of].journal_entry_id]
    IN /\ Len(entries') = Len(entries) + 1
       /\ e.lines = SwappedLines(o.lines)
       /\ \A a \in AccountIds : NetOn(a, e.lines) + NetOn(a, o.lines) = 0

C14_Step ==
    (Serves("submit_invoice") /\ last'.result = "ok"
        /\ NoteOfOriginal(invoices[last'.req.invoice_id]))
    => MirrorPosted(invoices[last'.req.invoice_id])

AsCloned(note) ==
    LET o == invoices[note.reversal_of]
    IN /\ note.party_id = o.party_id
       /\ note.party_type = o.party_type
       /\ Len(note.lines) = Len(o.lines)
       /\ \A i \in 1..Len(note.lines) :
             /\ note.lines[i].account_id = o.lines[i].account_id
             /\ note.lines[i].line_total = o.lines[i].line_total
             /\ note.lines[i].tax_rate_id = o.lines[i].tax_rate_id

C14_AmendedStep ==
    (Serves("submit_invoice") /\ last'.result = "ok"
        /\ NoteOfOriginal(invoices[last'.req.invoice_id])
        /\ AsCloned(invoices[last'.req.invoice_id]))
    => MirrorPosted(invoices[last'.req.invoice_id])

---------------------------------------------------------------------------
(* C15: create_credit_note answers ok only for a submitted sales invoice   *)
(* of the tenant, create_debit_note only for a submitted purchase invoice; *)
(* a draft or cancelled original or one of another type is rejected, and   *)
(* every call that is not ok leaves the invoices as they were.  On ok one  *)
(* invoice is added: a draft of the note's type with the original's party, *)
(* reversal_of the original, and line by line the original's account,      *)
(* quantity, unit price, discount, line_total and tax rate; the invoices   *)
(* stored before, the original among them, are unchanged.                  *)
NoteOps == {"create_credit_note", "create_debit_note"}
NoteType(op) == IF op = "create_credit_note" THEN "credit_note" ELSE "debit_note"
OriginalType(op) == IF op = "create_credit_note" THEN "sales" ELSE "purchase"

SameLine(a, b) ==
    /\ a.account_id = b.account_id
    /\ a.quantity = b.quantity
    /\ a.unit_price = b.unit_price
    /\ a.discount_percent = b.discount_percent
    /\ a.line_total = b.line_total
    /\ a.tax_rate_id = b.tax_rate_id

C15_Step ==
    \A op \in NoteOps :
       Serves(op) =>
          LET t == last'.req.tenant_id
              id == last'.req.invoice_id
              found == GetInvoice(invoices, t, id) # None
              n == Len(invoices')
          IN /\ last'.result = "ok" =>
                   /\ found
                   /\ invoices[id].status = "submitted"
                   /\ invoices[id].invoice_type = OriginalType(op)
                   /\ n = Len(invoices) + 1
                   /\ \A i \in 1..Len(invoices) : invoices'[i] = invoices[i]
                   /\ invoices'[n].tenant_id = t
                   /\ invoices'[n].status = "draft"
                   /\ invoices'[n].invoice_type = NoteType(op)
                   /\ invoices'[n].party_id = invoices[id].party_id
                   /\ invoices'[n].party_type = invoices[id].party_type
                   /\ invoices'[n].reversal_of = id
                   /\ Len(invoices'[n].lines) = Len(invoices[id].lines)
                   /\ \A i \in 1..Len(invoices[id].lines) :
                         SameLine(invoices'[n].lines[i], invoices[id].lines[i])
             /\ last'.result # "ok" => invoices' = invoices
             /\ (found /\ (invoices[id].status \in {"draft", "cancelled"}
                            \/ invoices[id].invoice_type # OriginalType(op)))
                   => last'.result \in {"cancelled_original", "not_submitted", "wrong_type"}

C15_NotesOfSubmittedOriginals == [][C15_Step]_vars

C15_Witness ==
    /\ last.op = "create_debit_note"
    /\ last.result = "ok"
    /\ invoices[last.id].reversal_of = 1
    /\ invoices[1].invoice_type = "purchase"
    /\ Len(invoices[last.id].lines) = 2
    /\ invoices[last.id].lines[2].tax_rate_id # NoRate

---------------------------------------------------------------------------
(* C16: the trial balance of a tenant's fiscal year has a row for exactly  *)
(* the accounts with a line in a posted entry of that tenant and fiscal    *)
(* year (dated up to as_of when as_of is given); the row's total_debit and *)
(* total_credit are the sums of the debits and credits of those lines, and *)
(* its balance is debit - credit for asset and expense accounts, credit -  *)
(* debit for liability, equity and revenue accounts.                       *)
Counted(i, t, fy, asOf) ==
    /\ entries[i].tenant_id = t
    /\ entries[i].fiscal_year_id = fy
    /\ entries[i].status = "posted"
    /\ (asOf = NoAsOf \/ entries[i].posting_date <= asOf)

RECURSIVE SideOn(_, _, _, _)
SideOn(a, side, lines, k) ==
    IF k > Len(lines) THEN 0
    ELSE (IF lines[k].account_id = a THEN lines[k][side] ELSE 0) + SideOn(a, side, lines, k + 1)

RECURSIVE PostedOn(_, _, _, _, _, _)
PostedOn(a, side, t, fy, asOf, i) ==
    IF i = 0 THEN 0
    ELSE (IF Counted(i, t, fy, asOf) THEN SideOn(a, side, entries[i].lines, 1) ELSE 0)
         + PostedOn(a, side, t, fy, asOf, i - 1)

HasPosting(a, t, fy, asOf) ==
    \E i \in 1..Len(entries) :
        Counted(i, t, fy, asOf) /\ \E k \in 1..Len(entries[i].lines) : entries[i].lines[k].account_id = a

C16_Report ==
    (last.op = "get_trial_balance" /\ last.result = "ok") =>
        LET t == last.req.tenant_id
            fy == last.req.fiscal_year_id
            asOf == last.req.as_of
            rows == last.report.lines
        IN /\ DOMAIN rows = {a \in AccountIds : HasPosting(a, t, fy, asOf)}
           /\ \A a \in DOMAIN rows :
                 LET td == PostedOn(a, "debit", t, fy, asOf, Len(entries))
                     tc == PostedOn(a, "credit", t, fy, asOf, Len(entries))
                 IN /\ rows[a].total_debit = td
                    /\ rows[a].total_credit = tc
                    /\ accounts[a].account_type \in {"asset", "expense"}
                          => rows[a].balance = td - tc
                    /\ accounts[a].account_type \in {"liability", "equity", "revenue"}
                          => rows[a].balance = tc - td

C16_TrialBalance == []C16_Report

C16_Witness ==
    /\ last.op = "get_trial_balance"
    /\ last.result = "ok"
    /\ last.req.as_of = 0
    /\ Len(entries) = 2
    /\ entries[1].tenant_id = last.req.tenant_id
    /\ entries[2].tenant_id = last.req.tenant_id
    /\ entries[1].fiscal_year_id = last.req.fiscal_year_id
    /\ entries[2].posting_date > 0
    /\ "Sales" \in DOMAIN last.report.lines
    /\ last.report.lines["Sales"].balance = -2
    /\ last.report.lines["AR"].balance = -2

---------------------------------------------------------------------------
(* C17: ar_aging (ap_aging) counts exactly the tenant's submitted sales    *)
(* (purchase) invoices dated up to as_of.  With d = as_of - due_date each  *)
(* counted invoice lies in exactly one band (d <= 0, 1..30, 31..60,        *)
(* 61..90, d >= 91) and a party's band holds the sum of the totals of its  *)
(* counted invoices in that band; a party's total is the sum of its five   *)
(* bands; every band of the grand total is the sum of the party rows.      *)
InBand(b, d) ==
    \/ b = "current" /\ d <= 0
    \/ b = "days_1_30" /\ 1 <= d /\ d <= 30
    \/ b = "days_31_60" /\ 31 <= d /\ d <= 60
    \/ b = "days_61_90" /\ 61 <= d /\ d <= 90
    \/ b = "days_91_plus" /\ d >= 91

AgedType(op) == IF op = "ar_aging" THEN "sales" ELSE "purchase"

CountedInvoices(op, t, asOf) ==
    {i \in 1..Len(invoices) :
        /\ invoices[i].tenant_id = t
        /\ invoices[i].status = "submitted"
        /\ invoices[i].invoice_type = AgedType(op)
        /\ invoices[i].invoice_date <= asOf}

RECURSIVE TotalOf(_)
TotalOf(S) ==
    IF S = {} THEN 0
    ELSE LET i == CHOOSE j \in S : TRUE IN invoices[i].total + TotalOf(S \ {i})

RECURSIVE SumRows(_, _, _)
SumRows(rows, ps, k) ==
    IF ps = {} THEN 0
    ELSE LET p == CHOOSE q \in ps : TRUE IN rows[p][k] + SumRows(rows, ps \ {p}, k)

C17_Report ==
    (last.op \in {"ar_aging", "ap_aging"}) =>
        LET asOf == last.req.as_of
            counted == CountedInvoices(last.op, last.req.tenant_id, asOf)
            rows == last.report.rows
            ofParty(p) == {i \in counted : invoices[i].party_id = p}
        IN /\ DOMAIN rows = {invoices[i].party_id : i \in counted}
           /\ \A i \in counted :
                 Cardinality({b \in AgingBands : InBand(b, asOf - invoices[i].due_date)}) = 1
           /\ \A p \in DOMAIN rows :
                 /\ \A b \in AgingBands :
                       rows[p][b] = TotalOf({i \in ofParty(p) :
                                               InBand(b, asOf - invoices[i].due_date)})
                 /\ rows[p]["total"] = rows[p]["current"] + rows[p]["days_1_30"]
                       + rows[p]["days_31_60"] + rows[p]["days_61_90"] + rows[p]["days_91_plus"]
                 /\ rows[p]["total"] = TotalOf(ofParty(p))
           /\ \A k \in AgingBands \cup {"total"} :
                 last.report.totals[k] = SumRows(rows, DOMAIN rows, k)

C17_Aging == []C17_Report

C17_Witness ==
    /\ last.op = "ar_aging"
    /\ last.req.as_of = 30
    /\ Cardinality(DOMAIN last.report.rows) = 2
    /\ last.report.totals["current"] > 0
    /\ last.report.totals["days_1_30"] > 0
    /\ last.report.totals["total"] = 6

---------------------------------------------------------------------------
(* C18: the tenant is an isolation boundary.  A request made for tenant A  *)
(* never changes a record of tenant B and adds only records of tenant A;   *)
(* naming a fiscal year, journal entry or invoice of another tenant by id  *)
(* is answered not found, a party of another tenant party not found;       *)
(* post_journal and the invoice validation reject every account and tax    *)
(* rate of another tenant and store nothing; and the same request on       *)
(* tables that differ only in the rows of the other tenants has the same   *)
(* possible results, the same rows of tenant A afterwards and the same     *)
(* report.                                                                 *)
Foreign(tbl, t, id) == id \in 1..Len(tbl) /\ tbl[id].tenant_id # t

OthersKept(old, new, t) ==
    /\ Len(old) <= Len(new)
    /\ \A i \in 1..Len(old) : old[i].tenant_id # t => new[i] = old[i]
    /\ \A i \in (Len(old) + 1)..Len(new) : new[i].tenant_id = t

ForeignAccountIn(lines, t) ==
    \E i \in 1..Len(lines) :
        lines[i].account_id \in DOMAIN accounts /\ accounts[lines[i].account_id].tenant_id # t

ForeignTaxRateIn(lines, t) ==
    \E i \in 1..Len(lines) :
        lines[i].tax_rate_id \in DOMAIN taxRates /\ taxRates[lines[i].tax_rate_id].tenant_id # t

ForeignParty(r) ==
    IF r.party_type = "customer"
    THEN r.party_id \in DOMAIN customers /\ customers[r.party_id].tenant_id # r.tenant_id
    ELSE r.party_id \in DOMAIN vendors /\ vendors[r.party_id].tenant_id # r.tenant_id

(* the rows of tenant t, each at its place in the table *)
Own(tbl, t) == [i \in 1..Len(tbl) |-> IF tbl[i].tenant_id = t THEN {tbl[i]} ELSE {}]

(* the second run: every row of a tenant other than t is a different row *)
OtherFiscalYears(fys, t) ==
    [i \in 1..Len(fys) |->
        IF fys[i].tenant_id = t THEN fys[i]
        ELSE [fys[i] EXCEPT !.status = IF @ = "open" THEN "closed" ELSE "open",
                            !.start_date = 0, !.end_date = MaxDay + YearLen]]

OtherEntries(ents, t) ==
    [i \in 1..Len(ents) |->
        IF ents[i].tenant_id = t THEN ents[i]
        ELSE [ents[i] EXCEPT !.journal_number = @ + 7,
                             !.status = "draft",
                             !.posting_date = @ + 1,
                             !.reversed_by = IF @ = None THEN i ELSE None,
                             !.lines = <<>>]]

OtherInvoices(invs, t) ==
    [i \in 1..Len(invs) |->
        IF invs[i].tenant_id = t THEN invs[i]
        ELSE [invs[i] EXCEPT !.invoice_number = @ + 7,
                             !.status = IF @ = "draft" THEN "submitted" ELSE "draft",
                             !.invoice_date = @ + 1,
                             !.total = @ + 1,
                             !.lines = <<>>]]

OtherMaster(rows, t) ==
    [k \in DOMAIN rows |->
        IF rows[k].tenant_id = t THEN rows[k] ELSE [rows[k] EXCEPT !.is_active = ~@]]

OtherAccounts(accts, t) ==
    [k \in DOMAIN accts |->
        IF accts[k].tenant_id = t THEN accts[k]
        ELSE [accts[k] EXCEPT !.is_active = ~@, !.is_group = ~@, !.account_type = "expense"]]

(* what a request can answer and leave behind on the given tables *)
Ran(result, fys, ents, invs, report) ==
    [result |-> result, fiscalYears |-> fys, entries |-> ents, invoices |-> invs,
     report |-> report]

Run(op, r, fys, ents, invs, accts, rates, custs, vends, day) ==
    LET t == r.tenant_id IN
    CASE op = "post_journal" ->
            {LET v == ValidateLines(r, day, floatAbove)
                 tx == PostJournalTx(ents, fys, accts, t, r, row)
             IN IF v # "ok" THEN Ran(v, fys, ents, invs, {})
                ELSE Ran(Outcome(tx.result, pub), fys,
                         IF Commit(tx.result, pub) THEN tx.entries ELSE ents, invs, {}) :
             floatAbove \in FloatOutcomes(r.lines),
             row \in FiscalYearRows(fys, t, r.posting_date),
             pub \in PublishOutcomes}
      [] op = "reverse_journal" ->
            {LET tx == ReverseJournalTx(ents, fys, t, r.entry_id, r.reversal_date,
                                        r.description, row)
             IN Ran(Outcome(tx.result, pub), fys,
                    IF Commit(tx.result, pub) THEN tx.entries ELSE ents, invs, {}) :
             row \in FiscalYearRows(fys, t, r.reversal_date), pub \in PublishOutcomes}
      [] op = "close_fiscal_year" ->
            {LET tx == CloseFiscalYearTx(fys, t, r.fiscal_year_id)
             IN Ran(Outcome(tx.result, pub),
                    IF Commit(tx.result, pub) THEN tx.fiscalYears ELSE fys, ents, invs, {}) :
             pub \in PublishOutcomes}
      [] op = "create_invoice" ->
            {LET tx == CreateInvoiceTx(invs, accts, rates, custs, vends, t, r)
             IN Ran(tx.result, fys, ents, tx.invoices, {})}
      [] op = "update_invoice" ->
            {LET tx == UpdateInvoiceTx(invs, accts, rates, t, r.invoice_id, r)
             IN Ran(tx.result, fys, ents, tx.invoices, {})}
      [] op = "submit_invoice" ->
            {LET tx == SubmitInvoiceTx(invs, ents, fys, accts, rates, custs, vends,
                                       t, r.invoice_id, day, row)
                 pub == BothPublished(pubJournal, pubInvoice)
             IN Ran(Outcome(tx.result, pub), fys,
                    IF Commit(tx.result, pub) THEN tx.entries ELSE ents,
                    IF Commit(tx.result, pub) THEN tx.invoices ELSE invs, {}) :
             row \in (IF GetInvoice(invs, t, r.invoice_id) = None THEN {None}
                      ELSE FiscalYearRows(fys, t, invs[r.invoice_id].invoice_date)),
             pubJournal \in PublishOutcomes, pubInvoice \in PublishOutcomes}
      [] op = "cancel_invoice" ->
            {LET tx == CancelInvoiceTx(invs, ents, fys, t, r.invoice_id, day, row)
                 pub == BothPublished(pubJournal, pubInvoice)
             IN Ran(Outcome(tx.result, pub), fys,
                    IF Commit(tx.result, pub) THEN tx.entries ELSE ents,
                    IF Commit(tx.result, pub) THEN tx.invoices ELSE invs, {}) :
             row \in FiscalYearRows(fys, t, day),
             pubJournal \in PublishOutcomes, pubInvoice \in PublishOutcomes}
      [] op = "create_credit_note" ->
            {LET tx == CreateCreditNoteTx(invs, t, r.invoice_id, day)
             IN Ran(Outcome(tx.result, pub), fys, ents,
                    IF Commit(tx.result, pub) THEN tx.invoices ELSE invs, {}) :
             pub \in PublishOutcomes}
      [] op = "get_trial_balance" ->
            {LET tb == TrialBalanceGet(ents, fys, accts, t, r.fiscal_year_id, r.as_of)
             IN Ran(tb.result, fys, ents, invs, {tb})}

(* what tenant t sees of a run *)
SeenBy(o, t) ==
    [result |-> o.result, fiscalYears |-> Own(o.fiscalYears, t),
     entries |-> Own(o.entries, t), invoices |-> Own(o.invoices, t), report |-> o.report]

SameForTenant(op, r) ==
    LET t == r.tenant_id
        first == Run(op, r, fiscalYears, entries, invoices,
                     accounts, taxRates, customers, vendors, today)
        second == Run(op, r, OtherFiscalYears(fiscalYears, t), OtherEntries(entries, t),
                      OtherInvoices(invoices, t), OtherAccounts(accounts, t),
                      OtherMaster(taxRates, t), OtherMaster(customers, t),
                      OtherMaster(vendors, t), today)
    IN /\ {SeenBy(o, t) : o \in first} = {SeenBy(o, t) : o \in second}
       /\ SeenBy(Ran(last'.result, fiscalYears', entries', invoices',
                     IF op = "get_trial_balance" THEN {last'.report} ELSE {}), t)
             \in {SeenBy(o, t) : o \in first}

C18_Step ==
    (Idle /\ last'.op # "none") =>
        LET op == last'.op
            r == last'.req
            t == r.tenant_id
            res == last'.result
        IN /\ OthersKept(fiscalYears, fiscalYears', t)
           /\ OthersKept(entries, entries', t)
           /\ OthersKept(invoices, invoices', t)
           /\ <<accounts', taxRates', customers', vendors', users'>>
                 = <<accounts, taxRates, customers, vendors, users>>
           /\ (op = "reverse_journal" /\ Foreign(entries, t, r.entry_id)) => res = "not_found"
           /\ (op \in {"close_fiscal_year", "get_trial_balance"}
                 /\ Foreign(fiscalYears, t, r.fiscal_year_id)) => res = "not_found"
           /\ (op \in {"update_invoice", "submit_invoice", "cancel_invoice", "create_credit_note"}
                 /\ Foreign(invoices, t, r.invoice_id)) => res = "not_found"
           /\ (op = "create_invoice" /\ ForeignParty(r)) => res = "party_not_found"
           /\ (op = "post_journal" /\ ForeignAccountIn(r.lines, t)) =>
                 (res # "ok" /\ entries' = entries)
           /\ (op \in {"create_invoice", "update_invoice"}
                 /\ (ForeignAccountIn(r.lines, t) \/ ForeignTaxRateIn(r.lines, t))) =>
                 (res # "ok" /\ invoices' = invoices)
           /\ SameForTenant(op, r)

C18_TenantIsolation == [][C18_Step]_vars

(* tenant t1 asks to cancel the submitted invoice of tenant t2 while both  *)
(* tenants have invoices and journal entries; the answer is not found      *)
C18_Witness ==
    /\ last.op = "cancel_invoice"
    /\ last.req.tenant_id = "t1"
    /\ Foreign(invoices, "t1", last.req.invoice_id)
    /\ invoices[last.req.invoice_id].status = "submitted"
    /\ last.result = "not_found"
    /\ \E i \in 1..Len(invoices) : invoices[i].tenant_id = "t1"
    /\ \E i \in 1..Len(entries) : entries[i].tenant_id = "t1"
    /\ \E i \in 1..Len(entries) : entries[i].tenant_id = "t2"

---------------------------------------------------------------------------
(* C19: a request to GET /api/v1/users/me that carries no Authorization    *)
(* header, or a bearer token that fails verification (bad signature or     *)
(* expired), is answered with HTTP status 401 and returns no user data.    *)
Unauthenticated(r, day) ==
    \/ r.authorization = "none"
    \/ r.authorization = "bearer" /\ DecodeToken(r.token, day) # "ok"

C19_Answer ==
    (last.op = "get_me" /\ Unauthenticated(last.req, today)) =>
        (last.response.status = 401 /\ last.response.user = NoSub)

C19_Unauthorized == []C19_Answer

---------------------------------------------------------------------------
(* C21: each journal entry is reversed at most once.  In every reachable   *)
(* state, also when two reverse_journal requests for the same entry        *)
(* overlap in time, at most one stored entry has reversal_of = e.          *)
ReversalsOf(e) == {i \in 1..Len(entries) : entries[i].reversal_of = e}

C21_ReversedAtMostOnce ==
    \A e \in 1..Len(entries) : Cardinality(ReversalsOf(e)) <= 1

---------------------------------------------------------------------------
(* C22: an invoice is posted to the ledger at most once.  In every         *)
(* reachable state, also when two submit_invoice requests for the same     *)
(* draft overlap in time, at most one journal entry was created by the     *)
(* submission of an invoice, and it is the one that the invoice's          *)
(* journal_entry_id names.                                                 *)
PostingsOf(i) ==
    {e \in 1..Len(entries) :
        /\ entries[e].tenant_id = invoices[i].tenant_id
        /\ entries[e].reference = <<"INV-", invoices[i].invoice_number>>}

---------------------------------------------------------------------------
(* C23: when the requests run one at a time, each new journal entry (of    *)
(* post_journal, reverse_journal, submit_invoice or cancel_invoice) gets    *)
(* journal_number = 1 + the tenant's maximum before (1 for the first), so  *)
(* the k-th entry of a tenant in creation order has number k: the numbers  *)
(* are distinct and without gaps, whatever the other tenant has stored; a  *)
(* request that is rejected or rolled back stores nothing and uses no      *)
(* number.                                                                 *)
EntriesOf(ents, t) == {i \in 1..Len(ents) : ents[i].tenant_id = t}

NumbersOf(ents, t) == {ents[i].journal_number : i \in EntriesOf(ents, t)}

GaplessInOrder(ents) ==
    \A i \in 1..Len(ents) :
        ents[i].journal_number
            = Cardinality({j \in EntriesOf(ents, ents[i].tenant_id) : j <= i})

JournalOps == {"post_journal", "reverse_journal", "submit_invoice", "cancel_invoice"}

C23_Step ==
    (Idle /\ last'.op \in JournalOps) =>
        LET t == last'.req.tenant_id
        IN /\ last'.result = "ok" =>
                 /\ Len(entries') = Len(entries) + 1
                 /\ entries'[Len(entries')].tenant_id = t
                 /\ entries'[Len(entries')].journal_number = Max0(NumbersOf(entries, t)) + 1
                 /\ \A i \in 1..Len(entries) :
                       entries'[i].journal_number = entries[i].journal_number
           /\ last'.result # "ok" => entries' = entries
           /\ GaplessInOrder(entries')

C23_GaplessNumbers == [][C23_Step]_vars

(* the reversal of a tenant's first entry gets number 2 *)
C23_Witness ==
    /\ last.op = "reverse_journal"
    /\ last.result = "ok"
    /\ Len(entries) = 2
    /\ entries[1].journal_number = 1
    /\ entries[2].tenant_id = entries[1].tenant_id
    /\ entries[2].journal_number = 2

---------------------------------------------------------------------------
(* C24: submit_invoice succeeds for every draft invoice that create_invoice *)
(* or update_invoice accepted, whose party, line accounts and tax rates    *)
(* are active and whose invoice_date lies in an open fiscal year (and not  *)
(* too far ahead), whatever its invoice_type / party_type combination, its *)
(* line totals and its tax rates; only the event bus may still fail.       *)
Submittable(t, id) ==
    /\ GetInvoice(invoices, t, id) # None
    /\ invoices[id].status = "draft"
    /\ invoices[id].lines # <<>>
    /\ ValidParty(customers, vendors, t, invoices[id].party_id, invoices[id].party_type)
    /\ \A i \in 1..Len(invoices[id].lines) :
          ValidLine(accounts, taxRates, t, invoices[id].lines[i])
    /\ invoices[id].invoice_date <= today + FutureDays
    /\ \A row \in FiscalYearRows(fiscalYears, t, invoices[id].invoice_date) :
          ResolveFiscalYear(fiscalYears, row) = "ok"

C24_Step ==
    (Idle /\ last'.op = "submit_invoice"
          /\ Submittable(last'.req.tenant_id, last'.req.invoice_id)) =>
        last'.result \in {"ok", "publish_failed"}

C24_SubmitSucceeds == [][C24_Step]_vars

---------------------------------------------------------------------------
---------------------------------------------------------------------------
(* C26: the fiscal years of a tenant never overlap.  After any sequence of *)
(* seed_initial_fiscal_year, create_fiscal_year and close_fiscal_year      *)
(* calls every date lies in at most one fiscal year of the tenant, so the  *)
(* query of resolve_fiscal_year never has two rows to choose from.         *)
YearsApart(a, b) == a.end_date < b.start_date \/ b.end_date < a.start_date

C26_YearsDisjoint ==
    \A i \in 1..Len(fiscalYears), j \in 1..Len(fiscalYears) :
        (i < j /\ fiscalYears[i].tenant_id = fiscalYears[j].tenant_id) =>
            YearsApart(fiscalYears[i], fiscalYears[j])

---------------------------------------------------------------------------
(* C27: for every tenant, fiscal year and as_of date the trial balance's   *)
(* overall total_debit equals its overall total_credit, after any sequence *)
(* of journal postings and reversals.                                      *)
C27_Report ==
    (last.op = "get_trial_balance" /\ last.result = "ok") =>
        last.report.total_debit = last.report.total_credit

C27_TotalsEqual == []C27_Report

---------------------------------------------------------------------------
(* C28: an account with journal lines cannot be deactivated.  After any    *)
(* sequence of deactivate_account, update_account, post_journal and        *)
(* reverse_journal calls no account with is_active = false is referenced   *)
(* by a journal line.                                                      *)
C28_NoInactiveAccountInLines ==
    \A i \in 1..Len(entries) : \A k \in 1..Len(entries[i].lines) :
        accounts[entries[i].lines[k].account_id].is_active

---------------------------------------------------------------------------
(* C29: every stored invoice has due_date >= invoice_date, in every state  *)
(* reachable through create_invoice, update_invoice, create_credit_note    *)
(* and create_debit_note.                                                  *)
C29_DueNotBeforeInvoiceDate ==
    \A i \in 1..Len(invoices) : invoices[i].due_date >= invoices[i].invoice_date

---------------------------------------------------------------------------
(* C30: a journal-posted event is published only for a journal entry that  *)
(* ends up stored.  When a request has published finance.journal_posted    *)
(* for an entry, that entry is in the journal_entries table once the       *)
(* request is over: never an entry of a transaction that was rolled back.  *)

(* the entry named by the journal-posted event of the request just served *)
JournalPosted ==
    IF last.op \in {"submit_invoice", "cancel_invoice"} THEN last.journal_posted
    ELSE IF last.op \in {"post_journal", "reverse_journal"} /\ last.result = "ok" THEN last.id
    ELSE None

C30_PublishedEntryStored ==
    JournalPosted # None => JournalPosted \in 1..Len(entries)

====
